---- MODULE Spec2Model ----
(***************************************************************************)
(* Loan management system: the application, loan and collateral state      *)
(* machines of the backend controllers, with the EMI amortization of the   *)
(* Loan model.                                                             *)
(*                                                                         *)
(* Money is held in hundredths of a currency unit (integers), a date is a  *)
(* month counted from the start of the run and a day of that month, the    *)
(* years being common years.  A handler is a sequence of steps, one per    *)
(* awaited database operation.  Spec runs every handler to its end in one  *)
(* action; SpecRepay does so without the requests that override a status,  *)
(* SpecPay for a loan of three instalments, SpecZero for a product without *)
(* interest, SpecValue for the requests that change a collateral's value.  *)
(* SpecConc lets the steps of several requests interleave, SpecLedger      *)
(* those on one loan, SpecFault lets an awaited operation fail as well.    *)
(* SpecIntake, SpecReview, SpecSchedule, SpecExample and SpecEdit serve    *)
(* requests as Spec does, each with the inputs of one part: the creation   *)
(* of applications, the review of two applications, the schedule           *)
(* generator, one application of everyday size, the editing and deletion   *)
(* of applications.                                                        *)
(***************************************************************************)
EXTENDS Integers, Sequences, FiniteSets, TLC

VARIABLES
    collaterals,    \* Collateral collection: folio -> document
    applications,   \* LoanApplication collection: id -> document
    loans,          \* Loan collection: id -> document
    today,          \* the current date
    inflight,       \* requests whose handler is suspended at an await
    last            \* the response to the request that completed last

vars == <<collaterals, applications, loans, today, inflight, last>>

(***************************************************************************)
(* Bounds of the model.                                                    *)
(***************************************************************************)
NumFolios == 1          \* folio numbers a request may name
MaxApplications == 1    \* applications ever created when requests are served in turn
MaxLoans == 1           \* loans ever created when requests are served in turn
MaxToday == 3           \* the clock stops on the first day of this month
MaxInflight == 2        \* requests in flight at once
NumIntakeFolios == 2    \* folio numbers an intake request may name
IntakeMaxApplications == 1  \* applications ever created by the intake
NumReviewFolios == 2    \* folio numbers a request under review may name
ReviewMaxApplications == 2  \* applications ever created while under review
ReviewMaxLoans == 1     \* loans ever created while under review
MaxTenure == 4          \* longest tenure a schedule is generated for

Folios == 1 .. NumFolios
ApplicationIds == 1 .. MaxApplications
LoanIds == 1 .. MaxLoans

(***************************************************************************)
(* A reference that was never assigned reads as undefined; one that was    *)
(* cleared reads as null.  Both are falsy, neither equals an id.           *)
(***************************************************************************)
Undefined == -1
Null == 0
IsSet(ref) == ref > 0

(***************************************************************************)
(* Loan products (read-only configuration).  Product 2 is inactive,        *)
(* product 3 allows a loan-to-value of 55 percent, product 4 lends         *)
(* 50000.00 to 5000000.00 over 6 to 36 months, product 5 lends over up to  *)
(* 3 months, product 6 lends without interest.                             *)
(***************************************************************************)
ProductIds == {1, 2, 3, 4, 5, 6}
LoanProduct(p) ==
    [ status       |-> IF p = 2 THEN "inactive" ELSE "active",
      interestRate |-> IF p = 6 THEN 0 ELSE 12,
      minAmount    |-> IF p = 4 THEN 5000000 ELSE 1000,
      maxAmount    |-> IF p = 4 THEN 500000000 ELSE 3000,
      minTenure    |-> IF p = 4 THEN 6 ELSE 1,
      maxTenure    |-> IF p = 4 THEN 36 ELSE IF p = 5 THEN 3 ELSE 2,
      maxLTV       |-> IF p = 3 THEN 55 ELSE 50 ]

(***************************************************************************)
(* Inputs of the requests.                                                 *)
(***************************************************************************)
RequestedProducts == {1, 2}
RequestedAmounts == {500, 1000, 2000, 4000}
Tenures == {2, 3}
ApprovedAmounts == {0, 2000}       \* 0: no approvedAmount in the body
UnitsInputs == {2}
NavInputs == {1000}
PaidAmounts == {500}
ApplicationStatuses ==
    {"draft", "submitted", "under_review", "approved", "rejected", "disbursed", "closed"}
LoanStatuses == {"active", "overdue", "closed", "defaulted", "restructured"}
BodyStatuses == {"draft", "disbursed"}      \* status values of an updateApplication body
BodyAmounts == {2000}                       \* requestedAmount values of such a body
StatusOverrides == {"closed", "active"}     \* status values of an updateLoanStatus body

(***************************************************************************)
(* Arithmetic.                                                             *)
(***************************************************************************)
RECURSIVE Pow(_, _)
Pow(b, n) == IF n = 0 THEN 1 ELSE b * Pow(b, n - 1)

RECURSIVE Gcd(_, _)
Gcd(a, b) == IF b = 0 THEN a ELSE Gcd(b, a % b)

\* Math.round(n / d) for d > 0: the nearest integer, halves rounded up
MathRound(n, d) == (2 * n + d) \div (2 * d)

\* A date: the day of a month, months counted from 1 = the first January.
\* The encoding keeps the order of the dates and is above Null and Undefined.
Date(month, day) == 31 * month + day - 1
GetMonth(date) == date \div 31
GetDate(date) == (date % 31) + 1

\* The days of a month of a common year
DaysIn(month) ==
    LET m == ((month - 1) % 12) + 1
    IN  IF m = 2 THEN 28 ELSE IF m \in {4, 6, 9, 11} THEN 30 ELSE 31

\* dueDate.setMonth(dueDate.getMonth() + i): the same day of the month i months
\* on; a day that month does not have runs over into the month after it
SetMonth(date, i) ==
    LET month == GetMonth(date) + i
        day == GetDate(date)
    IN  IF day > DaysIn(month)
        THEN Date(month + 1, day - DaysIn(month))
        ELSE Date(month, day)

\* monthlyRate = interestRate / 12 / 100, as the fraction RateNum / RateDen
RateNum(rate) == rate \div Gcd(rate, 1200)
RateDen(rate) == 1200 \div Gcd(rate, 1200)

\* Not-a-number: what 0 / 0 evaluates to
NaN == -2

\* The amortization works on products of the amount with powers of the rate
\* fraction, far beyond 32 bits.  A wide natural number is the sequence of
\* its digits in base Radix, lowest first, without leading zeros (0 is the
\* empty sequence).
Radix == 10000
RECURSIVE Wide(_)
Wide(n) == IF n = 0 THEN << >> ELSE <<n % Radix>> \o Wide(n \div Radix)

Digit(u, i) == IF i <= Len(u) THEN u[i] ELSE 0

\* u without its leading zeros
Trim(u) ==
    LET used == { i \in 1 .. Len(u) : u[i] # 0 }
    IN  IF used = {} THEN << >>
        ELSE SubSeq(u, 1, CHOOSE i \in used : \A j \in used : j <= i)

\* The digits of u + v from position i on, with the carry into position i
RECURSIVE WideAddFrom(_, _, _, _)
WideAddFrom(u, v, i, carry) ==
    IF i > Len(u) /\ i > Len(v)
    THEN Wide(carry)
    ELSE LET sum == Digit(u, i) + Digit(v, i) + carry
         IN  <<sum % Radix>> \o WideAddFrom(u, v, i + 1, sum \div Radix)
WideAdd(u, v) == WideAddFrom(u, v, 1, 0)

\* The digits of u - v (for v <= u) from position i on, with the borrow
RECURSIVE WideSubFrom(_, _, _, _)
WideSubFrom(u, v, i, borrow) ==
    IF i > Len(u) THEN << >>
    ELSE LET diff == u[i] - Digit(v, i) - borrow
         IN  <<(diff + Radix) % Radix>>
             \o WideSubFrom(u, v, i + 1, IF diff < 0 THEN 1 ELSE 0)
WideSub(u, v) == Trim(WideSubFrom(u, v, 1, 0))

\* The digits of u * d for one digit d, from position i on
RECURSIVE WideTimesDigit(_, _, _, _)
WideTimesDigit(u, d, i, carry) ==
    IF i > Len(u) THEN Wide(carry)
    ELSE LET p == u[i] * d + carry
         IN  <<p % Radix>> \o WideTimesDigit(u, d, i + 1, p \div Radix)

\* u times the digits lo .. hi of v, each at its position
RECURSIVE WideMulDigits(_, _, _, _)
WideMulDigits(u, v, lo, hi) ==
    IF lo = hi
    THEN [i \in 1 .. lo - 1 |-> 0] \o WideTimesDigit(u, v[lo], 1, 0)
    ELSE LET mid == (lo + hi) \div 2
         IN  WideAdd(WideMulDigits(u, v, lo, mid), WideMulDigits(u, v, mid + 1, hi))
WideMul(u, v) ==
    IF u = << >> \/ v = << >> THEN << >>
    ELSE IF Len(u) < Len(v) THEN Trim(WideMulDigits(v, u, 1, Len(u)))
    ELSE Trim(WideMulDigits(u, v, 1, Len(v)))

\* u^n by repeated squaring
RECURSIVE WidePow(_, _)
WidePow(u, n) ==
    IF n = 0 THEN <<1>>
    ELSE LET half == WidePow(u, n \div 2)
             square == WideMul(half, half)
         IN  IF n % 2 = 0 THEN square ELSE WideMul(square, u)

\* u <= v
WideLeq(u, v) ==
    IF Len(u) # Len(v) THEN Len(u) < Len(v)
    ELSE LET differ == { i \in 1 .. Len(u) : u[i] # v[i] }
             top == CHOOSE i \in differ : \A j \in differ : j <= i
         IN  differ = {} \/ u[top] < v[top]

\* The largest q in lo .. hi with q * d <= n, given that lo * d <= n
RECURSIVE WideQuotient(_, _, _, _)
WideQuotient(n, d, lo, hi) ==
    IF lo = hi THEN lo
    ELSE LET mid == hi - (hi - lo) \div 2
         IN  IF WideLeq(WideMul(Wide(mid), d), n)
             THEN WideQuotient(n, d, mid, hi)
             ELSE WideQuotient(n, d, lo, mid - 1)

\* A wide integer: a sign and a wide natural number; 0 is not negative
Signed(neg, mag) == [neg |-> neg /\ mag # << >>, mag |-> mag]
Plus(x, y) ==
    IF x.neg = y.neg THEN Signed(x.neg, WideAdd(x.mag, y.mag))
    ELSE IF WideLeq(y.mag, x.mag) THEN Signed(x.neg, WideSub(x.mag, y.mag))
    ELSE Signed(y.neg, WideSub(y.mag, x.mag))
Minus(x, y) == Plus(x, Signed(~y.neg, y.mag))
Times(x, u) == Signed(x.neg, WideMul(x.mag, u))

MaxInt == 2147483647

\* x / d cut off after the hundredths instead of rounded
WideTruncate(x, d) ==
    IF x.neg
    THEN 0 - WideQuotient(x.mag, d, 0, MaxInt)
    ELSE WideQuotient(x.mag, d, 0, MaxInt)

\* Math.round(x / d) for a wide integer x and a wide d > 0: the nearest
\* integer, halves rounded up, that is floor((2x + d) / 2d)
WideRound(x, d) ==
    LET n == Plus(Plus(x, x), Signed(FALSE, d))
        dd == WideAdd(d, d)
    IN  IF n.neg
        THEN 0 - WideQuotient(WideAdd(n.mag, WideSub(dd, <<1>>)), dd, 0, MaxInt)
        ELSE WideQuotient(n.mag, dd, 0, MaxInt)

\* base^n <= limit
RECURSIVE PowWithin(_, _, _)
PowWithin(base, n, limit) ==
    IF n = 0 THEN 1 <= limit ELSE PowWithin(base, n - 1, limit \div base)

\* Every product and sum of the amortization of amount at rate over tenure
\* months fits 32 bits: they are all below
\* (4 * amount * a + 2 * tenure + b + 3) * (a + b)^tenure
FitsInt(amount, rate, tenure) ==
    /\ amount <= 1000000
    /\ RateNum(rate) <= 100
    /\ PowWithin(RateNum(rate) + RateDen(rate), tenure,
                 MaxInt \div (4 * amount * RateNum(rate) + 2 * tenure + RateDen(rate) + 3))

\* The same on 32-bit integers
EmiAmountInt(amount, rate, tenure) ==
    LET a == RateNum(rate)
        b == RateDen(rate)
        up == Pow(a + b, tenure)
    IN  IF up - Pow(b, tenure) = 0
        THEN NaN
        ELSE MathRound(amount * a * up, b * (up - Pow(b, tenure)))

\* emi = amount * r * (1 + r)^n / ((1 + r)^n - 1), then Math.round(emi * 100) / 100
EmiAmountWide(amount, rate, tenure) ==
    LET a == Wide(RateNum(rate))
        b == Wide(RateDen(rate))
        up == WidePow(WideAdd(a, b), tenure)
        down == WidePow(b, tenure)
    IN  IF up = down
        THEN NaN
        ELSE WideRound(Signed(FALSE, WideMul(WideMul(Wide(amount), a), up)),
                       WideMul(b, WideSub(up, down)))

EmiAmount(amount, rate, tenure) ==
    IF FitsInt(amount, rate, tenure)
    THEN EmiAmountInt(amount, rate, tenure)
    ELSE EmiAmountWide(amount, rate, tenure)

\* The ratio num / den * 100, kept as a fraction in lowest terms; 0 when there
\* is no collateral value
Ratio(num, den) ==
    IF den > 0
    THEN [num |-> num \div Gcd(num, den), den |-> den \div Gcd(num, den)]
    ELSE [num |-> 0, den |-> 1]

\* ltv > maxLTV, with ltv = (num / den) * 100 in double precision.  The
\* quotient and the product are each rounded to the nearest double, which
\* moves the result by less than 1e-13: the comparison is the exact one, except
\* when num / den is exactly percent / 100.  For the whole percentages in
\* RoundsAbove the double (percent / 100) * 100 is above percent
\* (0.55 * 100 = 55.00000000000001), for all others up to 100 it is not.
RoundsAbove == {7, 14, 28, 55, 56}
RatioExceedsExactly(x, percent) == x.num * 100 > percent * x.den
RatioExceeds(x, percent) ==
    \/ x.num * 100 > percent * x.den
    \/ x.num * 100 = percent * x.den /\ percent \in RoundsAbove
RatioEq(x, y) == x.num * y.den = y.num * x.den

(***************************************************************************)
(* Documents.                                                              *)
(***************************************************************************)
\* Collateral.create: lienStatus defaults to none, no link is assigned
NewCollateral(units, navPerUnit) ==
    [ units             |-> units,
      navPerUnit        |-> navPerUnit,
      currentValue      |-> units * navPerUnit,
      lienStatus        |-> "none",
      linkedApplication |-> Undefined,
      linkedLoan        |-> Undefined ]

\* collaterals.reduce((sum, c) => sum + c.currentValue, 0)
RECURSIVE TotalValue(_, _)
TotalValue(colls, S) ==
    IF S = {} THEN 0
    ELSE LET f == CHOOSE x \in S : TRUE
         IN  colls[f].currentValue + TotalValue(colls, S \ {f})

\* loanSchema.methods.generateEmiSchedule: the entries from instalment i on,
\* where the running balance before instalment i is balance / den and den is
\* RateDen^(i - 1)
RECURSIVE WideEntries(_, _, _, _)
WideEntries(loan, i, balance, den) ==
    IF i > loan.tenure THEN << >>
    ELSE LET a == Wide(RateNum(loan.interestRate))
             b == Wide(RateDen(loan.interestRate))
             scale == WideMul(den, b)
             interest == Times(balance, a)
             principal == Minus(Signed(FALSE, WideMul(Wide(loan.emiAmount), scale)), interest)
         IN  << [ emiNumber   |-> i,
                  dueDate     |-> SetMonth(loan.disbursedAt, i),
                  principal   |-> WideRound(principal, scale),
                  interest    |-> WideRound(interest, scale),
                  totalAmount |-> loan.emiAmount,
                  status      |-> "pending",
                  paidAmount  |-> 0 ] >>
             \o WideEntries(loan, i + 1, Minus(Times(balance, b), principal), scale)

EmiScheduleWide(loan) ==
    WideEntries(loan, 1, Signed(FALSE, Wide(loan.disbursedAmount)), <<1>>)

\* The same on 32-bit integers
EmiScheduleInt(loan) ==
    LET a == RateNum(loan.interestRate)
        b == RateDen(loan.interestRate)
        emi == loan.emiAmount
        RECURSIVE Bal(_)
        Bal(i) == IF i = 0 THEN loan.disbursedAmount
                  ELSE Bal(i - 1) * (a + b) - emi * Pow(b, i)
    IN  [ i \in 1 .. loan.tenure |->
            [ emiNumber   |-> i,
              dueDate     |-> SetMonth(loan.disbursedAt, i),
              principal   |-> MathRound(emi * Pow(b, i) - Bal(i - 1) * a, Pow(b, i)),
              interest    |-> MathRound(Bal(i - 1) * a, Pow(b, i)),
              totalAmount |-> emi,
              status      |-> "pending",
              paidAmount  |-> 0 ] ]

generateEmiSchedule(loan) ==
    IF FitsInt(loan.disbursedAmount, loan.interestRate, loan.tenure)
    THEN EmiScheduleInt(loan)
    ELSE EmiScheduleWide(loan)

(***************************************************************************)
(* document.save(): Mongoose sends the paths whose local value differs     *)
(* from the value that was loaded; every other stored path is kept.        *)
(***************************************************************************)
ModifiedPaths(stored, loaded, doc) ==
    [ k \in DOMAIN doc |-> IF doc[k] # loaded[k] THEN doc[k] ELSE stored[k] ]

\* collateralSchema.pre('save') recomputes currentValue first
SaveCollateral(stored, loaded, doc) ==
    ModifiedPaths(stored, loaded,
                  [doc EXCEPT !.currentValue = doc.units * doc.navPerUnit])

\* loanApplicationSchema.pre('save') recomputes ltv first
SaveApplication(stored, loaded, doc) ==
    ModifiedPaths(stored, loaded,
                  IF doc.totalCollateralValue > 0
                  THEN [doc EXCEPT !.ltv = Ratio(doc.requestedAmount, doc.totalCollateralValue)]
                  ELSE doc)

\* the entries of emiSchedule are sub-documents: their paths are sent one by one
SaveLoan(stored, loaded, doc) ==
    [ ModifiedPaths(stored, loaded, doc) EXCEPT
        !.emiSchedule =
            [ i \in DOMAIN doc.emiSchedule |->
                ModifiedPaths(stored.emiSchedule[i], loaded.emiSchedule[i],
                              doc.emiSchedule[i]) ] ]

\* Collateral.updateMany(filter, patch): patch every document where Match holds
UpdateManyCollaterals(colls, Match(_, _), patch) ==
    [ f \in DOMAIN colls |->
        IF Match(f, colls[f])
        THEN [ k \in DOMAIN colls[f] |->
                 IF k \in DOMAIN patch THEN patch[k] ELSE colls[f][k] ]
        ELSE colls[f] ]

(***************************************************************************)
(* Handlers.  A request r carries its inputs, the handler's local          *)
(* variables and pc, the await it is suspended at.  Each handler maps the  *)
(* database d and r to the database and request after the awaited          *)
(* operation and the code up to the next await.                            *)
(***************************************************************************)
Database == [collaterals |-> collaterals, applications |-> applications, loans |-> loans]

With(r, locals) == locals @@ r
Goto(d, r, pc) == [db |-> d, r |-> [r EXCEPT !.pc = pc]]
Finish(d, r, res) == [db |-> d, r |-> [r EXCEPT !.pc = "done", !.res = res]]

\* createCollateral(folioNumber = r.id, units, navPerUnit)
createCollateral(d, r) ==
    IF r.id \in DOMAIN d.collaterals
    THEN Finish(d, r, "DuplicateFolio")
    ELSE Finish([d EXCEPT !.collaterals = (r.id :> NewCollateral(r.units, r.navPerUnit)) @@ @],
                r, "ok")

\* updateCollateral(collateral = r.id, units, navPerUnit, ...otherFields = r.arg);
\* a field the body does not carry is Undefined
updateCollateral(d, r) ==
    IF r.pc = "start"
    THEN IF r.id \notin DOMAIN d.collaterals
         THEN Finish(d, r, "NotFound")
         ELSE LET collateral == d.collaterals[r.id]
                  assigned == [ k \in DOMAIN collateral |->
                                  IF k = "units" /\ r.units # Undefined THEN r.units
                                  ELSE IF k = "navPerUnit" /\ r.navPerUnit # Undefined
                                  THEN r.navPerUnit
                                  ELSE IF k \in DOMAIN r.arg THEN r.arg[k]
                                  ELSE collateral[k] ]
              IN  Goto(d, With(r, [loaded |-> collateral,
                                   doc |-> [assigned EXCEPT
                                              !.currentValue =
                                                  assigned.units * assigned.navPerUnit]]),
                       "save")
    ELSE Finish([d EXCEPT !.collaterals[r.id] = SaveCollateral(@, r.loaded, r.doc)], r, "ok")

\* A collateral that the update passes by
NavIgnored(collateral, newNav) == collateral

\* collateral.navPerUnit = newNav; collateral.currentValue = collateral.units * newNav
NavUpdated(collateral, newNav) ==
    [collateral EXCEPT !.navPerUnit = newNav, !.currentValue = collateral.units * newNav]

\* updateNav(navUpdates = r.arg).  The entries are worked on concurrently
\* (Promise.all): every findOne is issued at once, every save when its findOne
\* has answered.  r.order is the order in which the saves are made; with
\* r.early every findOne has answered before the first save, otherwise the
\* findOne of an entry answers after the saves before it.  The response
\* carries the number of collaterals updated (r.id).
updateNav(d, r) ==
    IF r.pc = "start"
    THEN IF r.arg = << >>
         THEN Finish(d, r, "ok")
         ELSE Goto(d, With(r, [found |-> [ i \in DOMAIN r.arg |->
                                             IF r.arg[i].folioNumber \in DOMAIN d.collaterals
                                             THEN d.collaterals[r.arg[i].folioNumber]
                                             ELSE Null ],
                               queue |-> r.order]),
                   "save")
    ELSE LET i == Head(r.queue)
             folioNumber == r.arg[i].folioNumber
             collateral == IF r.early THEN r.found[i] ELSE d.collaterals[folioNumber]
             saved == IF folioNumber \notin DOMAIN d.collaterals THEN d
                      ELSE [d EXCEPT !.collaterals[folioNumber] =
                               SaveCollateral(@, collateral,
                                              NavUpdated(collateral, r.arg[i].newNav))]
             updated == r.id + IF folioNumber \in DOMAIN d.collaterals THEN 1 ELSE 0
         IN  IF Tail(r.queue) = << >>
             THEN Finish(saved, [r EXCEPT !.id = updated], "ok")
             ELSE Goto(saved, [r EXCEPT !.id = updated, !.queue = Tail(@)], "save")

\* A lien that an application holds; a lien marked without one would not count
LienHeld(collateral) ==
    collateral.lienStatus = "marked" /\ IsSet(collateral.linkedApplication)

\* collateral.lienStatus === 'marked'
LienMarked(collateral) == collateral.lienStatus = "marked"

\* markLien(collateral = r.id, applicationId = r.arg)
markLien(d, r) ==
    IF r.pc = "start"
    THEN IF r.id \notin DOMAIN d.collaterals
         THEN Finish(d, r, "NotFound")
         ELSE LET collateral == d.collaterals[r.id]
              IN  IF LienMarked(collateral)
                  THEN Finish(d, r, "AlreadyMarked")
                  ELSE Goto(d, With(r, [loaded |-> collateral,
                                        doc |-> [collateral EXCEPT
                                                   !.lienStatus = "marked",
                                                   !.linkedApplication =
                                                       IF IsSet(r.arg) THEN r.arg ELSE @]]),
                            "save")
    ELSE Finish([d EXCEPT !.collaterals[r.id] = SaveCollateral(@, r.loaded, r.doc)], r, "ok")

\* A loan that is not closed yet
LoanOpen(loan) == loan.status # "closed"

\* loan.status === 'active': the linked loan that blocks a release
LoanActive(loan) == loan.status = "active"

\* releaseLien(collateral = r.id)
releaseLien(d, r) ==
    CASE r.pc = "start" ->
            IF r.id \notin DOMAIN d.collaterals
            THEN Finish(d, r, "NotFound")
            ELSE LET collateral == d.collaterals[r.id]
                     released == [collateral EXCEPT !.lienStatus = "released",
                                                    !.linkedApplication = Null,
                                                    !.linkedLoan = Null]
                 IN  IF collateral.lienStatus # "marked"
                     THEN Finish(d, r, "NotMarked")
                     ELSE Goto(d, With(r, [loaded |-> collateral, doc |-> released]),
                               IF IsSet(collateral.linkedLoan) THEN "findLoan" ELSE "save")
      [] r.pc = "findLoan" ->
            IF /\ r.loaded.linkedLoan \in DOMAIN d.loans
               /\ LoanActive(d.loans[r.loaded.linkedLoan])
            THEN Finish(d, r, "ActiveLoanBlock")
            ELSE Goto(d, r, "save")
      [] r.pc = "save" ->
            Finish([d EXCEPT !.collaterals[r.id] = SaveCollateral(@, r.loaded, r.doc)], r, "ok")

\* createApplication(loanProductId, requestedAmount, tenure, collateralFolios);
\* r.id becomes the id of the application it creates, the first id that no
\* stored application has
\* A collateral that carries no lien now, whatever it carried before
LienNotMarked(collateral) == collateral.lienStatus # "marked"

\* lienStatus: 'none'
LienFree(collateral) == collateral.lienStatus = "none"

createApplication(d, r) ==
    CASE r.pc = "start" ->
            LET loanProduct == LoanProduct(r.loanProductId)
                found == { f \in r.collateralFolios : /\ f \in DOMAIN d.collaterals
                                         /\ LienFree(d.collaterals[f]) }
                totalCollateralValue == TotalValue(d.collaterals, found)
                ltv == Ratio(r.requestedAmount, totalCollateralValue)
            IN  IF r.loanProductId \notin ProductIds
                THEN Finish(d, r, "InvalidProduct")
                ELSE IF loanProduct.status # "active"
                THEN Finish(d, r, "InactiveProduct")
                ELSE IF \/ r.requestedAmount < loanProduct.minAmount
                        \/ r.requestedAmount > loanProduct.maxAmount
                THEN Finish(d, r, "AmountOutOfRange")
                ELSE IF r.tenure < loanProduct.minTenure \/ r.tenure > loanProduct.maxTenure
                THEN Finish(d, r, "TenureOutOfRange")
                ELSE IF Cardinality(found) # Cardinality(r.collateralFolios)
                THEN Finish(d, r, "InvalidOrPledgedCollateral")
                ELSE IF RatioExceeds(ltv, loanProduct.maxLTV)
                THEN Finish(d, r, "LtvExceeded")
                ELSE Goto(d, With(r, [doc |->
                                [ loanProduct          |-> r.loanProductId,
                                  requestedAmount      |-> r.requestedAmount,
                                  approvedAmount       |-> 0,
                                  tenure               |-> r.tenure,
                                  interestRate         |-> loanProduct.interestRate,
                                  collaterals          |-> found,
                                  totalCollateralValue |-> totalCollateralValue,
                                  ltv                  |-> ltv,
                                  status               |-> "submitted" ]]),
                          "create")
      [] r.pc = "create" ->
            LET id == CHOOSE i \in 1 .. Cardinality(DOMAIN d.applications) + 1 :
                          /\ i \notin DOMAIN d.applications
                          /\ \A j \in 1 .. i - 1 : j \in DOMAIN d.applications
                created == [d EXCEPT !.applications = (id :> r.doc) @@ @]
            IN  IF r.doc.collaterals = {}
                THEN Finish(created, [r EXCEPT !.id = id], "ok")
                ELSE Goto(created, [r EXCEPT !.id = id], "mark")
      [] r.pc = "mark" ->
            LET Match(f, c) == f \in r.doc.collaterals
            IN  Finish([d EXCEPT !.collaterals =
                            UpdateManyCollaterals(@, Match,
                                [linkedApplication |-> r.id, lienStatus |-> "marked"])],
                       r, "ok")

\* updateApplication(application = r.id, req.body = r.arg)
updateApplication(d, r) ==
    IF r.pc = "start"
    THEN IF r.id \notin DOMAIN d.applications
         THEN Finish(d, r, "NotFound")
         ELSE IF d.applications[r.id].status \notin {"draft", "submitted"}
         THEN Finish(d, r, "CannotUpdate")
         ELSE Goto(d, r, "update")
    ELSE Finish([d EXCEPT !.applications[r.id] =
                    [ k \in DOMAIN @ |-> IF k \in DOMAIN r.arg THEN r.arg[k] ELSE @[k] ]],
                r, "ok")

\* A check as wide as the one of updateApplication
IsEditable(application) == application.status \in {"draft", "submitted"}

\* application.status !== 'draft' refuses the deletion
IsDraft(application) == application.status = "draft"

\* deleteApplication(application = r.id)
deleteApplication(d, r) ==
    IF r.pc = "start"
    THEN IF r.id \notin DOMAIN d.applications
         THEN Finish(d, r, "NotFound")
         ELSE IF ~IsDraft(d.applications[r.id])
         THEN Finish(d, r, "OnlyDraft")
         ELSE Goto(d, r, "delete")
    ELSE Finish([d EXCEPT !.applications = [ a \in DOMAIN @ \ {r.id} |-> @[a] ]], r, "ok")

\* A table that differs from validTransitions in one row: a rejected
\* application may be submitted again
validTransitionsReopen(status) ==
    CASE status = "draft"        -> {"submitted"}
      [] status = "submitted"    -> {"under_review", "rejected"}
      [] status = "under_review" -> {"approved", "rejected"}
      [] status = "approved"     -> {"disbursed", "rejected"}
      [] status = "rejected"     -> {"submitted"}
      [] status = "disbursed"    -> {"closed"}
      [] status = "closed"       -> {}

\* const validTransitions = {...}
validTransitions(status) ==
    CASE status = "draft"        -> {"submitted"}
      [] status = "submitted"    -> {"under_review", "rejected"}
      [] status = "under_review" -> {"approved", "rejected"}
      [] status = "approved"     -> {"disbursed", "rejected"}
      [] status = "rejected"     -> {}
      [] status = "disbursed"    -> {"closed"}
      [] status = "closed"       -> {}

\* The amount asked for, whatever was approved
AmountRequested(populatedApp) == populatedApp.requestedAmount

\* const amount = populatedApp.approvedAmount || populatedApp.requestedAmount
Amount(populatedApp) ==
    IF populatedApp.approvedAmount # 0
    THEN populatedApp.approvedAmount
    ELSE populatedApp.requestedAmount

\* new Loan({...}) followed by loan.generateEmiSchedule() and the nextEmiDate
\* assignment.  A NaN emiAmount makes every schedule amount NaN: the schedule
\* is left empty, such a loan never passes validation.
NewLoan(id, populatedApp, now) ==
    LET amount == Amount(populatedApp)
        loan == [ application          |-> id,
                  loanProduct          |-> populatedApp.loanProduct,
                  disbursedAmount      |-> amount,
                  outstandingAmount    |-> amount,
                  tenure               |-> populatedApp.tenure,
                  interestRate         |-> populatedApp.interestRate,
                  emiAmount            |-> EmiAmount(amount, populatedApp.interestRate,
                                                     populatedApp.tenure),
                  nextEmiDate          |-> Null,
                  collaterals          |-> populatedApp.collaterals,
                  totalCollateralValue |-> populatedApp.totalCollateralValue,
                  currentLTV           |-> populatedApp.ltv,
                  status               |-> "active",
                  emiSchedule          |-> << >>,
                  totalPrincipalPaid   |-> 0,
                  totalInterestPaid    |-> 0,
                  disbursedAt          |-> now,
                  closedAt             |-> Null,
                  closureReason        |-> "" ]
        schedule == IF loan.emiAmount = NaN THEN << >> ELSE generateEmiSchedule(loan)
    IN  [loan EXCEPT !.emiSchedule = schedule,
                     !.nextEmiDate = IF Len(schedule) > 0 THEN schedule[1].dueDate ELSE @]

\* The loan schema's validators that a computed value can fail
LoanIsValid(loan) ==
    /\ loan.emiAmount # NaN
    /\ loan.emiAmount >= 0
    /\ loan.disbursedAmount >= 0
    /\ loan.outstandingAmount >= 0
    /\ loan.tenure >= 1

\* createLoanFromApplication(application = r.id), called by updateApplicationStatus
createLoanFromApplication(d, r) ==
    CASE r.pc = "populate" ->
            Goto(d, With(r, [loan |-> NewLoan(r.id, d.applications[r.id], r.now)]), "saveLoan")
      [] r.pc = "saveLoan" ->
            LET id == Cardinality(DOMAIN d.loans) + 1
            IN  IF ~LoanIsValid(r.loan)
                THEN Finish(d, r, "ValidationError")
                ELSE Goto([d EXCEPT !.loans = (id :> r.loan) @@ @],
                          With(r, [loanId |-> id]), "link")
      [] r.pc = "link" ->
            LET Match(f, c) == f \in r.loan.collaterals
            IN  Goto([d EXCEPT !.collaterals =
                          UpdateManyCollaterals(@, Match, [linkedLoan |-> r.loanId])],
                     r, "save")

\* updateApplicationStatus(application = r.id, status = r.arg, approvedAmount)
\* A collateral that some application holds
LinkedToAny(collateral, id) == IsSet(collateral.linkedApplication)

\* { linkedApplication: application._id }
LinkedTo(collateral, id) == collateral.linkedApplication = id

updateApplicationStatus(d, r) ==
    CASE r.pc = "start" ->
            IF r.id \notin DOMAIN d.applications
            THEN Finish(d, r, "NotFound")
            ELSE LET application == d.applications[r.id]
                     doc == [application EXCEPT
                               !.status = r.arg,
                               !.approvedAmount =
                                   IF r.arg # "approved" THEN @
                                   ELSE IF r.approvedAmount # 0 THEN r.approvedAmount
                                   ELSE application.requestedAmount]
                 IN  IF r.arg \notin validTransitions(application.status)
                     THEN Finish(d, r, "InvalidTransition")
                     ELSE Goto(d, With(r, [loaded |-> application, doc |-> doc]),
                               CASE r.arg = "rejected"  -> "release"
                                 [] r.arg = "disbursed" -> "populate"
                                 [] OTHER               -> "save")
      [] r.pc = "release" ->
            LET Match(f, c) == LinkedTo(c, r.id)
            IN  Goto([d EXCEPT !.collaterals =
                          UpdateManyCollaterals(@, Match,
                              [lienStatus |-> "released", linkedApplication |-> Null])],
                     r, "save")
      [] r.pc \in {"populate", "saveLoan", "link"} ->
            createLoanFromApplication(d, r)
      [] r.pc = "save" ->
            Finish([d EXCEPT !.applications[r.id] = SaveApplication(@, r.loaded, r.doc)],
                   r, "ok")

\* The principal that the amount paid covers once the interest is taken off
PrincipalCovered(emi, amount) == amount - emi.interest

\* The principal a payment retires: loan.totalPrincipalPaid += emi.principal and
\* loan.outstandingAmount -= emi.principal, whatever the amount
PrincipalRetired(emi, amount) == emi.principal

\* The principal still owed if the amount received were taken off
OutstandingByAmount(loan, emi, amount) == loan.outstandingAmount - PrincipalCovered(emi, amount)

\* loan.outstandingAmount -= emi.principal
Outstanding(loan, emi, amount) == loan.outstandingAmount - PrincipalRetired(emi, amount)

\* An EMI that was paid in full only; one paid short could then be paid again
AlreadyPaidInFull(emi) == emi.status = "paid" /\ emi.paidAmount >= emi.totalAmount

\* loan.emiSchedule[emiIndex].status === 'paid'
AlreadyPaid(emi) == emi.status = "paid"

\* An instalment that is not paid, be it pending or overdue
IsUnpaid(emi) == emi.status # "paid"

\* e.status === 'pending'
IsPending(emi) == emi.status = "pending"

\* A loan that its last payment closed; one closed by hand is not
IsFullyPaid(loan) == loan.status = "closed" /\ loan.closureReason = "fully_paid"

\* loan.status === 'closed'
IsClosed(loan) == loan.status = "closed"

\* recordPayment(loan = r.id, emiNumber = r.arg, amount)
recordPayment(d, r) ==
    CASE r.pc = "start" ->
            IF r.id \notin DOMAIN d.loans
            THEN Finish(d, r, "NotFound")
            ELSE LET loan == d.loans[r.id]
                     index == { i \in DOMAIN loan.emiSchedule :
                                  loan.emiSchedule[i].emiNumber = r.arg }
                     emiIndex == CHOOSE i \in index : TRUE
                     emi == loan.emiSchedule[emiIndex]
                     schedule == [loan.emiSchedule EXCEPT ![emiIndex].status = "paid",
                                                          ![emiIndex].paidAmount = r.amount]
                     outstanding == Outstanding(loan, emi, r.amount)
                     pending == { i \in DOMAIN schedule : IsPending(schedule[i]) }
                     nextPendingEmi == CHOOSE i \in pending : \A j \in pending : i <= j
                     fullyPaid == outstanding <= 0 \/ pending = {}
                     hasOverdue == \E i \in DOMAIN schedule : schedule[i].status = "overdue"
                     status == IF fullyPaid THEN "closed"
                               ELSE IF hasOverdue THEN "overdue"
                               ELSE IF loan.status = "overdue" THEN "active"
                               ELSE loan.status
                     doc == [loan EXCEPT
                               !.emiSchedule = schedule,
                               !.totalPrincipalPaid = @ + PrincipalRetired(emi, r.amount),
                               !.totalInterestPaid = @ + emi.interest,
                               !.outstandingAmount = outstanding,
                               !.nextEmiDate = IF pending = {} THEN Null
                                               ELSE schedule[nextPendingEmi].dueDate,
                               !.currentLTV = IF loan.totalCollateralValue > 0
                                              THEN Ratio(outstanding, loan.totalCollateralValue)
                                              ELSE @,
                               !.status = status,
                               !.closedAt = IF fullyPaid THEN r.now ELSE @,
                               !.closureReason = IF fullyPaid THEN "fully_paid" ELSE @]
                 IN  IF IsClosed(loan)
                     THEN Finish(d, r, "LoanClosed")
                     ELSE IF index = {}
                     THEN Finish(d, r, "EmiNotFound")
                     ELSE IF AlreadyPaid(emi)
                     THEN Finish(d, r, "AlreadyPaid")
                     ELSE Goto(d, With(r, [loaded |-> loan, doc |-> doc]),
                               IF fullyPaid THEN "release" ELSE "save")
      [] r.pc = "release" ->
            LET Match(f, c) == c.linkedLoan = r.id
            IN  Goto([d EXCEPT !.collaterals =
                          UpdateManyCollaterals(@, Match,
                              [lienStatus |-> "released", linkedLoan |-> Null])],
                     r, "save")
      [] r.pc = "save" ->
            IF ~LoanIsValid(r.doc)
            THEN Finish(d, r, "ValidationError")
            ELSE Finish([d EXCEPT !.loans[r.id] = SaveLoan(@, r.loaded, r.doc)], r, "ok")

\* updateLoanStatus(loan = r.id, status = r.arg)
updateLoanStatus(d, r) ==
    IF r.pc = "start"
    THEN IF r.id \notin DOMAIN d.loans
         THEN Finish(d, r, "NotFound")
         ELSE IF r.arg \notin LoanStatuses
         THEN Finish(d, r, "InvalidStatus")
         ELSE LET loan == d.loans[r.id]
              IN  Goto(d, With(r, [loaded |-> loan,
                                   doc |-> [loan EXCEPT
                                              !.status = r.arg,
                                              !.closedAt = IF r.arg = "closed" THEN r.now ELSE @]]),
                       "save")
    ELSE Finish([d EXCEPT !.loans[r.id] = SaveLoan(@, r.loaded, r.doc)], r, "ok")

\* An instalment that is due and not paid, whether or not it was marked before
IsUnpaidPastDue(emi, now) == emi.status # "paid" /\ emi.dueDate < now

\* An instalment that is pending and due today or before
IsDue(emi, now) == emi.status = "pending" /\ emi.dueDate <= now

\* The loop body of markOverdueEmis on one loaded loan (MarkEmisOnly: without
\* the status of the loan)
IsPastDue(emi, now) == emi.status = "pending" /\ emi.dueDate < now
hasUpdates(loan, now) == \E i \in DOMAIN loan.emiSchedule : IsPastDue(loan.emiSchedule[i], now)
MarkEmisOnly(loan, now) ==
    [loan EXCEPT !.emiSchedule = [ i \in DOMAIN @ |->
                                     IF IsPastDue(@[i], now)
                                     THEN [@[i] EXCEPT !.status = "overdue"]
                                     ELSE @[i] ]]
MarkOverdue(loan, now) ==
    [loan EXCEPT !.emiSchedule = [ i \in DOMAIN @ |->
                                     IF IsPastDue(@[i], now)
                                     THEN [@[i] EXCEPT !.status = "overdue"]
                                     ELSE @[i] ],
                 !.status = "overdue"]

RECURSIVE Ascending(_)
Ascending(S) ==
    IF S = {} THEN << >>
    ELSE LET m == CHOOSE x \in S : \A y \in S : x <= y
         IN  <<m>> \o Ascending(S \ {m})

\* markOverdueEmis(), today = r.now; only the loans it saves need another await.
\* The response carries updatedCount (r.arg).
markOverdueEmis(d, r) ==
    IF r.pc = "start"
    THEN LET found == { id \in DOMAIN d.loans :
                          /\ d.loans[id].status \in {"active", "overdue"}
                          /\ \E i \in DOMAIN d.loans[id].emiSchedule :
                                d.loans[id].emiSchedule[i].status = "pending" }
             toSave == { id \in found : hasUpdates(d.loans[id], r.now) }
         IN  IF toSave = {}
             THEN Finish(d, r, "ok")
             ELSE Goto(d, With(r, [loaded |-> [id \in toSave |-> d.loans[id]],
                                   queue |-> Ascending(toSave)]),
                       "save")
    ELSE LET id == Head(r.queue)
             saved == [d EXCEPT !.loans[id] =
                          SaveLoan(@, r.loaded[id], MarkOverdue(r.loaded[id], r.now))]
         IN  IF Tail(r.queue) = << >>
             THEN Finish(saved, [r EXCEPT !.arg = Cardinality(DOMAIN r.loaded)], "ok")
             ELSE Goto(saved, [r EXCEPT !.queue = Tail(@)], "save")

(***************************************************************************)
(* Requests.                                                               *)
(***************************************************************************)
Request(op, id, arg) ==
    [op |-> op, pc |-> "start", res |-> "", id |-> id, arg |-> arg, now |-> today]

Response(r) == [op |-> r.op, id |-> r.id, arg |-> r.arg, res |-> r.res]

Idle == [op |-> "idle"]

\* One step of the handler of r: up to its next await
Step(d, r) ==
    CASE r.op = "createCollateral"        -> createCollateral(d, r)
      [] r.op = "updateCollateral"        -> updateCollateral(d, r)
      [] r.op = "updateNav"               -> updateNav(d, r)
      [] r.op = "markLien"                -> markLien(d, r)
      [] r.op = "releaseLien"             -> releaseLien(d, r)
      [] r.op = "createApplication"       -> createApplication(d, r)
      [] r.op = "updateApplication"       -> updateApplication(d, r)
      [] r.op = "deleteApplication"       -> deleteApplication(d, r)
      [] r.op = "updateApplicationStatus" -> updateApplicationStatus(d, r)
      [] r.op = "recordPayment"           -> recordPayment(d, r)
      [] r.op = "updateLoanStatus"        -> updateLoanStatus(d, r)
      [] r.op = "markOverdueEmis"         -> markOverdueEmis(d, r)

\* The whole handler of r, with no other request in between.  Each step is
\* taken from a set of one, which has it evaluated once before the next.
RECURSIVE Run(_, _)
Run(d, r) ==
    CHOOSE end \in { IF s.r.pc = "done" THEN s ELSE Run(s.db, s.r) : s \in {Step(d, r)} } :
        TRUE

\* The bounds on the collections: a step that would insert beyond them is not taken
Fits(d, maxApplications, maxLoans) ==
    /\ Cardinality(DOMAIN d.applications) <= maxApplications
    /\ Cardinality(DOMAIN d.loans) <= maxLoans

NoResponse == [op |-> "none", id |-> 0, arg |-> 0, res |-> ""]

Init ==
    /\ collaterals = << >>
    /\ applications = << >>
    /\ loans = << >>
    /\ today = Date(1, 1)
    /\ inflight = [s \in 1 .. MaxInflight |-> Idle]
    /\ last = NoResponse

(***************************************************************************)
(* The requests a client may send.                                         *)
(***************************************************************************)
CreateCollateralRequests ==
    { With(Request("createCollateral", f, 0), [units |-> u, navPerUnit |-> n]) :
        f \in Folios, u \in UnitsInputs, n \in NavInputs }

MarkLienRequests ==
    { Request("markLien", f, a) : f \in Folios, a \in 0 .. MaxApplications }

ReleaseLienRequests == { Request("releaseLien", f, 0) : f \in Folios }

CreateApplicationRequests ==
    { With(Request("createApplication", 0, 0),
           [loanProductId |-> p, requestedAmount |-> amount, tenure |-> t,
            collateralFolios |-> folios]) :
        p \in RequestedProducts, amount \in RequestedAmounts, t \in Tenures,
        folios \in SUBSET Folios }

UpdateApplicationRequests ==
    { Request("updateApplication", a, body) :
        a \in ApplicationIds,
        body \in {[status |-> st] : st \in BodyStatuses}
                 \cup {[requestedAmount |-> x] : x \in BodyAmounts} }

UpdateApplicationStatusRequests ==
    { With(Request("updateApplicationStatus", a, st), [approvedAmount |-> approved]) :
        a \in ApplicationIds, st \in ApplicationStatuses \ {"approved"}, approved \in {0} }
    \cup
    { With(Request("updateApplicationStatus", a, "approved"), [approvedAmount |-> approved]) :
        a \in ApplicationIds, approved \in ApprovedAmounts }

RecordPaymentRequests ==
    { With(Request("recordPayment", l, n), [amount |-> amount]) :
        l \in LoanIds, n \in 1 .. 3, amount \in PaidAmounts }

UpdateLoanStatusRequests ==
    { Request("updateLoanStatus", l, st) : l \in LoanIds, st \in StatusOverrides }

MarkOverdueEmisRequests == { Request("markOverdueEmis", 0, 0) }

(***************************************************************************)
(* Spec: requests are served one at a time.  The handler runs to its end,  *)
(* its response is delivered, then the next request is taken.              *)
(***************************************************************************)
Handle(r) ==
    /\ last.op = "none"
    /\ \E s \in {Run(Database, r)} :
           /\ Fits(s.db, MaxApplications, MaxLoans)
           /\ collaterals' = s.db.collaterals
           /\ applications' = s.db.applications
           /\ loans' = s.db.loans
           /\ last' = Response(s.r)
    /\ UNCHANGED <<today, inflight>>

CreateCollateral == \E r \in CreateCollateralRequests : Handle(r)
MarkLien == \E r \in MarkLienRequests : Handle(r)
ReleaseLien == \E r \in ReleaseLienRequests : Handle(r)
CreateApplication == \E r \in CreateApplicationRequests : Handle(r)
UpdateApplication == \E r \in UpdateApplicationRequests : Handle(r)
UpdateApplicationStatus == \E r \in UpdateApplicationStatusRequests : Handle(r)
RecordPayment == \E r \in RecordPaymentRequests : Handle(r)
UpdateLoanStatus == \E r \in UpdateLoanStatusRequests : Handle(r)
MarkOverdueEmis == \E r \in MarkOverdueEmisRequests : Handle(r)

\* The response reaches the client
Deliver ==
    /\ last.op # "none"
    /\ last' = NoResponse
    /\ UNCHANGED <<collaterals, applications, loans, today, inflight>>

\* A month passes, from its first day to the first day of the next.  No date
\* is stored or compared before the first loan exists, so the clock is
\* started by the first disbursal.
Tick ==
    /\ last.op = "none"
    /\ loans # << >>
    /\ today < Date(MaxToday, 1)
    /\ today' = SetMonth(today, 1)
    /\ UNCHANGED <<collaterals, applications, loans, inflight, last>>

Next ==
    \/ CreateCollateral
    \/ MarkLien
    \/ ReleaseLien
    \/ CreateApplication
    \/ UpdateApplication
    \/ UpdateApplicationStatus
    \/ RecordPayment
    \/ UpdateLoanStatus
    \/ MarkOverdueEmis
    \/ Deliver
    \/ Tick

Spec == Init /\ [][Next]_vars

\* SpecRepay: the same without the requests that set a status directly
\* (updateApplication, updateLoanStatus) or a lien by hand: a loan changes only
\* by its disbursal, by payments and by the overdue sweep.
NextRepay ==
    \/ CreateCollateral
    \/ CreateApplication
    \/ UpdateApplicationStatus
    \/ RecordPayment
    \/ MarkOverdueEmis
    \/ Deliver
    \/ Tick

SpecRepay == Init /\ [][NextRepay]_vars

\* SpecPay: SpecRepay for one loan of three instalments without collateral,
\* from product 5
PayAmounts == {1000, 2000}
PayApplicationRequests ==
    { With(Request("createApplication", 0, 0),
           [loanProductId |-> 5, requestedAmount |-> amount, tenure |-> 3,
            collateralFolios |-> {}]) :
        amount \in PayAmounts }

PayCreateApplication == \E r \in PayApplicationRequests : Handle(r)

NextPay ==
    \/ PayCreateApplication
    \/ UpdateApplicationStatus
    \/ RecordPayment
    \/ MarkOverdueEmis
    \/ Deliver
    \/ Tick

SpecPay == Init /\ [][NextPay]_vars

\* SpecZero: applications without collateral for product 5, at 12 percent, and
\* for product 6, without interest, go through review up to their disbursal
ZeroProducts == {5, 6}
ZeroAmounts == {1000, 2000, 3000}
ZeroTenures == {1, 2}
ZeroApplicationRequests ==
    { With(Request("createApplication", 0, 0),
           [loanProductId |-> p, requestedAmount |-> amount, tenure |-> t,
            collateralFolios |-> {}]) :
        p \in ZeroProducts, amount \in ZeroAmounts, t \in ZeroTenures }

ZeroCreateApplication == \E r \in ZeroApplicationRequests : Handle(r)

NextZero ==
    \/ ZeroCreateApplication
    \/ UpdateApplicationStatus
    \/ Deliver

SpecZero == Init /\ [][NextZero]_vars

(***************************************************************************)
(* SpecValue: the value of the collaterals.  Requests are served one at a  *)
(* time as in Spec: the collateral is registered, pledged by hand or by an *)
(* application, released, and its units and NAV are changed by             *)
(* updateCollateral and by the bulk updateNav, whose list may name the     *)
(* same folio twice and a folio that is never registered.                  *)
(***************************************************************************)
ValueFolios == 1 .. NumFolios + 1
BodyUnits == {Undefined, 3}
BodyNavs == {Undefined, 1500}
OtherFields == { << >>, [currentValue |-> 1] }
NewNavs == {1000, 1500}
MaxNavUpdates == 2      \* entries of a navUpdates list

UpdateCollateralRequests ==
    { With(Request("updateCollateral", f, otherFields), [units |-> u, navPerUnit |-> n]) :
        f \in ValueFolios, u \in BodyUnits, n \in BodyNavs, otherFields \in OtherFields }

NavUpdates ==
    UNION { [ 1 .. n -> [folioNumber : ValueFolios, newNav : NewNavs] ] :
            n \in 0 .. MaxNavUpdates }

\* The orders in which the saves of n entries may be made
Orders(n) == { o \in [ 1 .. n -> 1 .. n ] : \A i, j \in 1 .. n : o[i] = o[j] => i = j }

UpdateNavRequests ==
    { With(Request("updateNav", 0, navUpdates), [order |-> o, early |-> early]) :
        navUpdates \in NavUpdates, o \in UNION { Orders(n) : n \in 0 .. MaxNavUpdates },
        early \in BOOLEAN }

UpdateCollateral == \E r \in UpdateCollateralRequests : Handle(r)
UpdateNav == \E r \in UpdateNavRequests : Len(r.order) = Len(r.arg) /\ Handle(r)

NextValue ==
    \/ CreateCollateral
    \/ UpdateCollateral
    \/ UpdateNav
    \/ MarkLien
    \/ ReleaseLien
    \/ CreateApplication
    \/ Deliver

SpecValue == Init /\ [][NextValue]_vars

(***************************************************************************)
(* SpecConc: the handlers of up to MaxInflight requests interleave at      *)
(* their awaits.  A request is accepted by running its handler up to the   *)
(* second await; every later step runs up to the next one.  Every request  *)
(* names the one folio, the first application and the first loan, so that  *)
(* the requests in flight meet on the same documents.                      *)
(***************************************************************************)
ConcMaxApplications == 2    \* applications ever created when requests interleave
ConcMaxLoans == 1           \* loans ever created when requests interleave

Busy == { s \in DOMAIN inflight : inflight[s].op # "idle" }
FreeSlot == CHOOSE s \in DOMAIN inflight \ Busy : \A t \in DOMAIN inflight \ Busy : s <= t

Accept(r) ==
    /\ Busy # DOMAIN inflight
    /\ \E s \in {Step(Database, r)} :
           /\ Fits(s.db, ConcMaxApplications, ConcMaxLoans)
           /\ collaterals' = s.db.collaterals
           /\ applications' = s.db.applications
           /\ loans' = s.db.loans
           /\ inflight' = IF s.r.pc = "done" THEN inflight
                          ELSE [inflight EXCEPT ![FreeSlot] = s.r]
    /\ UNCHANGED <<today, last>>

ConcCreateCollateral == \E r \in CreateCollateralRequests : Accept(r)
ConcReleaseLien == \E r \in ReleaseLienRequests : Accept(r)
ConcCreateApplication ==
    \E r \in CreateApplicationRequests :
        /\ r.loanProductId = 1 /\ r.requestedAmount = 1000 /\ r.tenure = 2
        /\ r.collateralFolios = Folios
        /\ Accept(r)
ConcUpdateApplicationStatus ==
    \E r \in UpdateApplicationStatusRequests :
        /\ r.id = 1 /\ r.approvedAmount = 0
        /\ Accept(r)
ConcRecordPayment == \E r \in RecordPaymentRequests : r.arg \in 1 .. 2 /\ Accept(r)
ConcMarkOverdueEmis == \E r \in MarkOverdueEmisRequests : Accept(r)

\* The awaited operation of the request in slot s completes and its handler
\* runs on to the next await
Proceed(s) ==
    /\ s \in Busy
    /\ \E n \in {Step(Database, inflight[s])} :
           /\ Fits(n.db, ConcMaxApplications, ConcMaxLoans)
           /\ collaterals' = n.db.collaterals
           /\ applications' = n.db.applications
           /\ loans' = n.db.loans
           /\ inflight' = [inflight EXCEPT ![s] = IF n.r.pc = "done" THEN Idle ELSE n.r]
    /\ UNCHANGED <<today, last>>

Resume == \E s \in DOMAIN inflight : Proceed(s)

ConcTick ==
    /\ loans # << >>
    /\ today < Date(MaxToday, 1)
    /\ today' = SetMonth(today, 1)
    /\ UNCHANGED <<collaterals, applications, loans, inflight, last>>

NextConc ==
    \/ ConcCreateCollateral
    \/ ConcReleaseLien
    \/ ConcCreateApplication
    \/ ConcUpdateApplicationStatus
    \/ ConcRecordPayment
    \/ ConcMarkOverdueEmis
    \/ Resume
    \/ ConcTick

SpecConc == Init /\ [][NextConc]_vars

(***************************************************************************)
(* SpecLedger: the requests on one loan interleave as in SpecConc.  An     *)
(* application without collateral is created while nothing else is in      *)
(* flight and goes through review; payments, sweeps and the status         *)
(* overrides of updateLoanStatus then meet on its loan.                    *)
(***************************************************************************)
LedgerAmounts == {2000}
LedgerCreateApplication ==
    \E r \in CreateApplicationRequests :
        /\ r.loanProductId = 1 /\ r.requestedAmount \in LedgerAmounts /\ r.tenure = 2
        /\ r.collateralFolios = {}
        /\ applications = << >> /\ Busy = {}
        /\ Accept(r)
LedgerUpdateApplicationStatus ==
    \E r \in UpdateApplicationStatusRequests :
        /\ r.id = 1 /\ r.approvedAmount = 0 /\ r.arg # "closed"
        /\ loans = << >>
        /\ Accept(r)
ConcUpdateLoanStatus == \E r \in UpdateLoanStatusRequests : Accept(r)

NextLedger ==
    \/ LedgerCreateApplication
    \/ LedgerUpdateApplicationStatus
    \/ ConcRecordPayment
    \/ ConcUpdateLoanStatus
    \/ ConcMarkOverdueEmis
    \/ Resume
    \/ ConcTick

SpecLedger == Init /\ [][NextLedger]_vars

(***************************************************************************)
(* SpecFault: one request at a time, and an awaited database operation may *)
(* reject.  The handler's catch block passes the error on; what the        *)
(* handler wrote before stays written.                                     *)
(***************************************************************************)
Alone(r) == Busy = {} /\ Accept(r)

FaultCreateCollateral == \E r \in CreateCollateralRequests : Alone(r)
FaultCreateApplication ==
    \E r \in CreateApplicationRequests :
        /\ r.loanProductId = 1 /\ r.requestedAmount = 1000 /\ r.tenure = 2
        /\ Alone(r)
FaultUpdateApplicationStatus == \E r \in UpdateApplicationStatusRequests : Alone(r)
FaultRecordPayment == \E r \in RecordPaymentRequests : Alone(r)

\* The awaited operation of the request in slot s rejects (StorageError)
Fault(s) ==
    /\ s \in Busy
    /\ inflight' = [inflight EXCEPT ![s] = Idle]
    /\ UNCHANGED <<collaterals, applications, loans, today, last>>

Reject == \E s \in DOMAIN inflight : Fault(s)

NextFault ==
    \/ FaultCreateCollateral
    \/ FaultCreateApplication
    \/ FaultUpdateApplicationStatus
    \/ FaultRecordPayment
    \/ Resume
    \/ Reject

SpecFault == Init /\ [][NextFault]_vars

(***************************************************************************)
(* SpecIntake: the intake of applications.  Requests are served one at a   *)
(* time as in Spec; only collaterals are registered, pledged and released  *)
(* and applications created, with inputs on and around every bound of the  *)
(* product: amounts at minAmount, at maxAmount and one off, tenures from   *)
(* below minTenure to above maxTenure, amounts that put the loan-to-value  *)
(* at the product's limit, a product id that does not exist.               *)
(***************************************************************************)
IntakeFolios == 1 .. NumIntakeFolios
IntakeProducts == {1, 2, 3, 9}
IntakeAmounts == {999, 1000, 1100, 1101, 2200, 3000, 3001}
IntakeTenures == 0 .. 3

IntakeCollateralRequests ==
    { With(Request("createCollateral", f, 0), [units |-> u, navPerUnit |-> n]) :
        f \in IntakeFolios, u \in UnitsInputs, n \in NavInputs }

IntakeLienRequests == { Request("markLien", f, 0) : f \in IntakeFolios }

IntakeReleaseRequests == { Request("releaseLien", f, 0) : f \in IntakeFolios }

IntakeApplicationRequests ==
    { With(Request("createApplication", 0, 0),
           [loanProductId |-> p, requestedAmount |-> amount, tenure |-> t,
            collateralFolios |-> folios]) :
        p \in IntakeProducts, amount \in IntakeAmounts, t \in IntakeTenures,
        folios \in SUBSET IntakeFolios }

Serve(r) ==
    /\ last.op = "none"
    /\ \E s \in {Run(Database, r)} :
           /\ Fits(s.db, IntakeMaxApplications, 0)
           /\ collaterals' = s.db.collaterals
           /\ applications' = s.db.applications
           /\ loans' = s.db.loans
           /\ last' = Response(s.r)
    /\ UNCHANGED <<today, inflight>>

IntakeCreateCollateral == \E r \in IntakeCollateralRequests : Serve(r)
IntakeMarkLien == \E r \in IntakeLienRequests : Serve(r)
IntakeReleaseLien == \E r \in IntakeReleaseRequests : Serve(r)
IntakeCreateApplication == \E r \in IntakeApplicationRequests : Serve(r)

NextIntake ==
    \/ IntakeCreateCollateral
    \/ IntakeMarkLien
    \/ IntakeReleaseLien
    \/ IntakeCreateApplication
    \/ Deliver

SpecIntake == Init /\ [][NextIntake]_vars

(***************************************************************************)
(* SpecReview: two applications over two folios go through review.         *)
(* Requests are served one at a time as in Spec; every application asks    *)
(* for the same amount and tenure, a lien may be marked for either         *)
(* application or for none, and an application may take any status.        *)
(***************************************************************************)
ReviewFolios == 1 .. NumReviewFolios
ReviewApplicationIds == 1 .. ReviewMaxApplications

ReviewCollateralRequests ==
    { With(Request("createCollateral", f, 0), [units |-> u, navPerUnit |-> n]) :
        f \in ReviewFolios, u \in UnitsInputs, n \in NavInputs }

ReviewMarkRequests ==
    { Request("markLien", f, a) : f \in ReviewFolios, a \in 0 .. ReviewMaxApplications }

ReviewReleaseRequests == { Request("releaseLien", f, 0) : f \in ReviewFolios }

ReviewApplicationRequests ==
    { With(Request("createApplication", 0, 0),
           [loanProductId |-> 1, requestedAmount |-> 1000, tenure |-> 2,
            collateralFolios |-> folios]) :
        folios \in SUBSET ReviewFolios }

ReviewStatusRequests ==
    { With(Request("updateApplicationStatus", a, st), [approvedAmount |-> 0]) :
        a \in ReviewApplicationIds, st \in ApplicationStatuses }

Review(r) ==
    /\ last.op = "none"
    /\ \E s \in {Run(Database, r)} :
           /\ Fits(s.db, ReviewMaxApplications, ReviewMaxLoans)
           /\ collaterals' = s.db.collaterals
           /\ applications' = s.db.applications
           /\ loans' = s.db.loans
           /\ last' = Response(s.r)
    /\ UNCHANGED <<today, inflight>>

ReviewCreateCollateral == \E r \in ReviewCollateralRequests : Review(r)
ReviewMarkLien == \E r \in ReviewMarkRequests : Review(r)
ReviewReleaseLien == \E r \in ReviewReleaseRequests : Review(r)
ReviewCreateApplication == \E r \in ReviewApplicationRequests : Review(r)
ReviewUpdateApplicationStatus == \E r \in ReviewStatusRequests : Review(r)

NextReview ==
    \/ ReviewCreateCollateral
    \/ ReviewMarkLien
    \/ ReviewReleaseLien
    \/ ReviewCreateApplication
    \/ ReviewUpdateApplicationStatus
    \/ Deliver

SpecReview == Init /\ [][NextReview]_vars

(***************************************************************************)
(* SpecSchedule: the schedule generator on its own.  A loan is built for   *)
(* an amount, a rate and a tenure on a disbursal date that may be any of   *)
(* the first, middle and last days of the twelve months; the rates are     *)
(* those whose monthly fraction keeps the exact arithmetic small.          *)
(***************************************************************************)
ScheduleDays == {1, 15, 28, 29, 30, 31}
ScheduleStarts ==
    { Date(md[1], md[2]) :
        md \in { x \in (1 .. 12) \X ScheduleDays : x[2] <= DaysIn(x[1]) } }
ScheduleAmounts == {1000, 2000}
ScheduleRates == {120, 1200}
ScheduleTenures == 1 .. MaxTenure

\* The rate and tenure of a schedule: every short tenure at every rate, and one
\* year at the rate whose monthly fraction is 1
LongTenure == 12
ScheduleTerms == (ScheduleRates \X ScheduleTenures) \cup {<<1200, LongTenure>>}

InitSchedule ==
    /\ collaterals = << >>
    /\ applications = << >>
    /\ loans = << >>
    /\ today \in ScheduleStarts
    /\ inflight = [s \in 1 .. MaxInflight |-> Idle]
    /\ last = NoResponse

\* new Loan({...}) and loan.generateEmiSchedule() for an application approved today
Generate ==
    \E amount \in ScheduleAmounts, term \in ScheduleTerms :
      LET rate == term[1]
          tenure == term[2]
      IN
        /\ loans = << >>
        /\ loans' = 1 :> NewLoan(1, [ loanProduct          |-> 1,
                                      requestedAmount      |-> amount,
                                      approvedAmount       |-> amount,
                                      tenure               |-> tenure,
                                      interestRate         |-> rate,
                                      collaterals          |-> {},
                                      totalCollateralValue |-> 0,
                                      ltv                  |-> Ratio(amount, 0),
                                      status               |-> "approved" ],
                                 today)
        /\ UNCHANGED <<collaterals, applications, today, inflight, last>>

NextSchedule == Generate

SpecSchedule == InitSchedule /\ [][NextSchedule]_vars

(***************************************************************************)
(* SpecExample: applications for product 4 with amounts of everyday size.  *)
(* Requests are served one at a time as in Spec: a collateral worth        *)
(* 1200000.00 or 1000000.00 is registered, an application asks for an      *)
(* amount and a tenure within or outside the product's bounds, with or     *)
(* without the collateral, and goes through review up to its disbursal.    *)
(***************************************************************************)
NumExampleFolios == 1       \* folio numbers a request of the example may name
ExampleMaxApplications == 1 \* applications ever created in the example
ExampleMaxLoans == 1        \* loans ever created in the example
ExampleFolios == 1 .. NumExampleFolios
ExampleUnits == {1000, 1200}
ExampleNavs == {100000}
ExampleAmounts == {4999900, 50000000, 72000000}
ExampleTenures == {5, 24}
ExampleApprovedAmounts == {0, 40000000}

ExampleCollateralRequests ==
    { With(Request("createCollateral", f, 0), [units |-> u, navPerUnit |-> n]) :
        f \in ExampleFolios, u \in ExampleUnits, n \in ExampleNavs }

ExampleApplicationRequests ==
    { With(Request("createApplication", 0, 0),
           [loanProductId |-> 4, requestedAmount |-> amount, tenure |-> t,
            collateralFolios |-> folios]) :
        amount \in ExampleAmounts, t \in ExampleTenures, folios \in SUBSET ExampleFolios }

ExampleStatusRequests ==
    { With(Request("updateApplicationStatus", a, st), [approvedAmount |-> approved]) :
        a \in 1 .. ExampleMaxApplications, st \in ApplicationStatuses,
        approved \in ExampleApprovedAmounts }

Example(r) ==
    /\ last.op = "none"
    /\ \E s \in {Run(Database, r)} :
           /\ Fits(s.db, ExampleMaxApplications, ExampleMaxLoans)
           /\ collaterals' = s.db.collaterals
           /\ applications' = s.db.applications
           /\ loans' = s.db.loans
           /\ last' = Response(s.r)
    /\ UNCHANGED <<today, inflight>>

ExampleCreateCollateral == \E r \in ExampleCollateralRequests : Example(r)
ExampleCreateApplication == \E r \in ExampleApplicationRequests : Example(r)
ExampleUpdateApplicationStatus == \E r \in ExampleStatusRequests : Example(r)

NextExample ==
    \/ ExampleCreateCollateral
    \/ ExampleCreateApplication
    \/ ExampleUpdateApplicationStatus
    \/ Deliver

SpecExample == Init /\ [][NextExample]_vars

(***************************************************************************)
(* SpecEdit: applications are edited and deleted.  Requests are served one *)
(* at a time as in Spec; the applications name no collateral, so that      *)
(* nothing refers to an application once it is deleted.  An update may     *)
(* carry any status or another amount, a deletion may name any id.         *)
(***************************************************************************)
EditMaxApplications == 2    \* applications stored at once while editing
EditMaxLoans == 1           \* loans ever created while editing
EditApplicationIds == 1 .. EditMaxApplications

EditCreateRequests ==
    { With(Request("createApplication", 0, 0),
           [loanProductId |-> 1, requestedAmount |-> 1000, tenure |-> 2,
            collateralFolios |-> {}]) }

EditUpdateRequests ==
    { Request("updateApplication", a, body) :
        a \in EditApplicationIds,
        body \in {[status |-> st] : st \in {"draft", "approved"}}
                 \cup {[requestedAmount |-> x] : x \in BodyAmounts} }

EditDeleteRequests == { Request("deleteApplication", a, 0) : a \in EditApplicationIds }

EditStatusRequests ==
    { With(Request("updateApplicationStatus", a, st), [approvedAmount |-> 0]) :
        a \in EditApplicationIds, st \in ApplicationStatuses }

Edit(r) ==
    /\ last.op = "none"
    /\ \E s \in {Run(Database, r)} :
           /\ Fits(s.db, EditMaxApplications, EditMaxLoans)
           /\ collaterals' = s.db.collaterals
           /\ applications' = s.db.applications
           /\ loans' = s.db.loans
           /\ last' = Response(s.r)
    /\ UNCHANGED <<today, inflight>>

EditCreateApplication == \E r \in EditCreateRequests : Edit(r)
EditUpdateApplication == \E r \in EditUpdateRequests : Edit(r)
EditDeleteApplication == \E r \in EditDeleteRequests : Edit(r)
EditUpdateApplicationStatus == \E r \in EditStatusRequests : Edit(r)

NextEdit ==
    \/ EditCreateApplication
    \/ EditUpdateApplication
    \/ EditDeleteApplication
    \/ EditUpdateApplicationStatus
    \/ Deliver

SpecEdit == Init /\ [][NextEdit]_vars

(***************************************************************************)
(* Properties of the requests served in turn (Spec).                       *)
(***************************************************************************)

\* C1: updateApplicationStatus answers ok only for a pair of the table
\* draft->submitted, submitted->{under_review, rejected},
\* under_review->{approved, rejected}, approved->{disbursed, rejected},
\* disbursed->closed, and then the application has the requested status; for
\* every other pair on an existing application (self-transitions, rejected and
\* closed applications included) it answers InvalidTransition and the
\* applications, the collaterals and the loans are what they were.
C1_TransitionTable ==
    [][ (last.op = "none" /\ last'.op = "updateApplicationStatus") =>
          LET id == last'.id
              to == last'.arg
              from == applications[id].status
              allowed == { <<"draft", "submitted">>,
                           <<"submitted", "under_review">>, <<"submitted", "rejected">>,
                           <<"under_review", "approved">>, <<"under_review", "rejected">>,
                           <<"approved", "disbursed">>, <<"approved", "rejected">>,
                           <<"disbursed", "closed">> }
          IN  /\ last'.res = "ok" =>
                    /\ id \in DOMAIN applications
                    /\ <<from, to>> \in allowed
                    /\ applications'[id].status = to
              /\ (id \in DOMAIN applications /\ <<from, to>> \notin allowed) =>
                    /\ last'.res = "InvalidTransition"
                    /\ UNCHANGED <<applications, collaterals, loans>>
              /\ last'.res = "InvalidTransition" =>
                    UNCHANGED <<applications, collaterals, loans>>
      ]_vars

\* C1 happens: a rejected application that holds no lien any more was asked
\* to become submitted again and the request was refused
C1_Witness ==
    /\ last.op = "updateApplicationStatus"
    /\ last.res = "InvalidTransition"
    /\ last.arg = "submitted"
    /\ last.id \in DOMAIN applications
    /\ applications[last.id].status = "rejected"
    /\ \E f \in DOMAIN collaterals : collaterals[f].lienStatus = "released"

\* C2: for every collateral at most one of linkedApplication and linkedLoan
\* is set, lienStatus is marked if and only if exactly one of them is set, and
\* lienStatus is none or released if and only if neither is set.
C2_LinkInvariant ==
    \A f \in DOMAIN collaterals :
        LET c == collaterals[f]
            links == (IF IsSet(c.linkedApplication) THEN 1 ELSE 0)
                     + (IF IsSet(c.linkedLoan) THEN 1 ELSE 0)
        IN  /\ links <= 1
            /\ c.lienStatus = "marked" <=> links = 1
            /\ c.lienStatus \in {"none", "released"} <=> links = 0

\* C7: the number of loans that reference an application is 1 if the
\* application is disbursed or closed and 0 otherwise.
C7_OneLoanPerApplication ==
    \A a \in DOMAIN applications :
        Cardinality({ l \in DOMAIN loans : loans[l].application = a })
            = IF applications[a].status \in {"disbursed", "closed"} THEN 1 ELSE 0

\* C8: no collateral has a lienStatus other than marked while its linkedLoan
\* references the loan that the disbursal of its application created.
C8_LinkedLoanIsMarked ==
    \A f \in DOMAIN collaterals :
        LET c == collaterals[f]
        IN  (c.linkedLoan \in DOMAIN loans /\ f \in loans[c.linkedLoan].collaterals)
                => c.lienStatus = "marked"

\* C9: recordPayment on the only pending EMI of a loan that is not closed,
\* where the EMI's principal brings outstandingAmount to 0 or less, leaves the
\* loan closed with closureReason fully_paid and closedAt set, and every
\* collateral that was linked to the loan released with neither link set.
C9_LastPaymentCloses ==
    [][ ( /\ last.op = "none"
          /\ last'.op = "recordPayment"
          /\ last'.id \in DOMAIN loans
          /\ loans[last'.id].status # "closed"
          /\ last'.arg \in DOMAIN loans[last'.id].emiSchedule
          /\ \A i \in DOMAIN loans[last'.id].emiSchedule :
                loans[last'.id].emiSchedule[i].status = "pending" <=> i = last'.arg
          /\ loans[last'.id].outstandingAmount
                - loans[last'.id].emiSchedule[last'.arg].principal <= 0 )
        => /\ loans'[last'.id].status = "closed"
           /\ loans'[last'.id].closureReason = "fully_paid"
           /\ IsSet(loans'[last'.id].closedAt)
           /\ \A f \in DOMAIN collaterals :
                collaterals[f].linkedLoan = last'.id =>
                    /\ collaterals'[f].lienStatus = "released"
                    /\ ~IsSet(collaterals'[f].linkedLoan)
                    /\ ~IsSet(collaterals'[f].linkedApplication)
      ]_vars

\* C10: a recordPayment, or a transition of an application to rejected, that
\* does not answer ok has changed no collateral, no loan and no application.
C10_AllOrNothing ==
    [][ ( /\ last.op = "none"
          /\ \/ last'.op = "recordPayment"
             \/ last'.op = "updateApplicationStatus" /\ last'.arg = "rejected"
          /\ last'.res # "ok" )
        => UNCHANGED <<collaterals, applications, loans>>
      ]_vars

\* C11 as stated: recordPayment for an EMI whose status is paid answers
\* AlreadyPaid and changes no loan and no collateral, whatever the loan's status.
C11_AlreadyPaidAnyLoan ==
    [][ ( /\ last.op = "none"
          /\ last'.op = "recordPayment"
          /\ last'.id \in DOMAIN loans
          /\ last'.arg \in DOMAIN loans[last'.id].emiSchedule
          /\ loans[last'.id].emiSchedule[last'.arg].status = "paid" )
        => /\ last'.res = "AlreadyPaid"
           /\ UNCHANGED <<loans, collaterals>>
      ]_vars

\* C11: recordPayment for an EMI whose status is paid, on a loan that is not
\* closed, answers AlreadyPaid (a closed loan answers LoanClosed first); either
\* way no loan (balances, totals, schedule, status) and no collateral changes.
\* A payment that is accepted is for an EMI that was not paid, so the
\* principal of an EMI is retired at most once.
C11_AlreadyPaid ==
    [][ ( /\ last.op = "none"
          /\ last'.op = "recordPayment"
          /\ last'.id \in DOMAIN loans
          /\ last'.arg \in DOMAIN loans[last'.id].emiSchedule )
        => LET loan == loans[last'.id]
               emi == loan.emiSchedule[last'.arg]
           IN  /\ emi.status = "paid" =>
                    /\ last'.res = IF loan.status = "closed" THEN "LoanClosed"
                                   ELSE "AlreadyPaid"
                    /\ UNCHANGED <<loans, collaterals>>
               /\ last'.res = "AlreadyPaid" => emi.status = "paid"
               /\ last'.res = "ok" => emi.status # "paid"
      ]_vars

\* C11 happens: a second payment for a paid EMI of a loan that still has an
\* unpaid EMI was refused
C11_Witness ==
    /\ last.op = "recordPayment"
    /\ last.res = "AlreadyPaid"
    /\ last.id \in DOMAIN loans
    /\ loans[last.id].status # "closed"
    /\ loans[last.id].emiSchedule[last.arg].status = "paid"
    /\ loans[last.id].totalPrincipalPaid = loans[last.id].emiSchedule[last.arg].principal

\* Amounts a payment may carry: far below, just below, equal to and above
\* the instalments of the loans of the model
AnyPaidAmounts == {1, 500, 508, 1015, 5000}

\* C12: in every state, a recordPayment that is accepted adds the EMI's
\* scheduled principal to totalPrincipalPaid, its scheduled interest to
\* totalInterestPaid and takes the scheduled principal off outstandingAmount,
\* whatever the amount; the amount is stored as the EMI's paidAmount and
\* nowhere else: with another amount the answer, the collaterals and the
\* rest of the loan are the same.
C12_ScheduledPrincipalRetired ==
    \A r \in RecordPaymentRequests :
        \A amount \in AnyPaidAmounts :
            LET s == Run(Database, [r EXCEPT !.amount = amount])
                t == Run(Database, r)
                SansPaidAmount(loan) == [loan EXCEPT !.emiSchedule[r.arg].paidAmount = 0]
            IN  /\ s.r.res = t.r.res
                /\ s.db.collaterals = t.db.collaterals
                /\ s.r.res = "ok" =>
                     LET before == loans[r.id]
                         after == s.db.loans[r.id]
                         emi == before.emiSchedule[r.arg]
                     IN  /\ after.totalPrincipalPaid = before.totalPrincipalPaid + emi.principal
                         /\ after.totalInterestPaid = before.totalInterestPaid + emi.interest
                         /\ after.outstandingAmount = before.outstandingAmount - emi.principal
                         /\ after.emiSchedule[r.arg].paidAmount = amount
                         /\ SansPaidAmount(after) = SansPaidAmount(t.db.loans[r.id])

\* C12 happens: a payment of less than the instalment was accepted and the
\* scheduled principal is retired in full
C12_Witness ==
    /\ last.op = "recordPayment"
    /\ last.res = "ok"
    /\ LET loan == loans[last.id]
           emi == loan.emiSchedule[last.arg]
       IN  /\ emi.paidAmount < emi.totalAmount
           /\ loan.totalPrincipalPaid = emi.principal
           /\ loan.outstandingAmount = loan.disbursedAmount - emi.principal

\* C13: in every state, running markOverdueEmis twice in a row on the same
\* date leaves every loan, with every EMI, after the second run as it was
\* after the first, and the second run reports no loan updated.
C13_SweepIdempotent ==
    \A r \in MarkOverdueEmisRequests :
        LET first == Run(Database, r)
            second == Run(first.db, r)
        IN  /\ second.db = first.db
            /\ second.r.res = "ok"
            /\ second.r.arg = 0

\* C13 happens: a sweep has run over a loan that an earlier sweep had marked
\* overdue and that still has a pending EMI, and has updated nothing
C13_Witness ==
    /\ last.op = "markOverdueEmis"
    /\ last.res = "ok"
    /\ last.arg = 0
    /\ \E l \in DOMAIN loans :
          /\ loans[l].status = "overdue"
          /\ \E i \in DOMAIN loans[l].emiSchedule : loans[l].emiSchedule[i].status = "overdue"
          /\ \E i \in DOMAIN loans[l].emiSchedule : loans[l].emiSchedule[i].status = "pending"

\* C14: markLien on a collateral whose lienStatus is marked answers
\* AlreadyMarked, releaseLien on a collateral whose lienStatus is none or
\* released answers NotMarked, and in both cases no collateral changes; the
\* two answers are given in no other case.
C14_LienErrors ==
    [][ ( /\ last.op = "none"
          /\ last'.op \in {"markLien", "releaseLien"}
          /\ last'.id \in DOMAIN collaterals )
        => LET marked == collaterals[last'.id].lienStatus = "marked"
           IN  /\ (last'.op = "markLien" /\ marked) =>
                     last'.res = "AlreadyMarked" /\ UNCHANGED collaterals
               /\ (last'.op = "releaseLien" /\ ~marked) =>
                     last'.res = "NotMarked" /\ UNCHANGED collaterals
               /\ last'.res = "AlreadyMarked" => last'.op = "markLien" /\ marked
               /\ last'.res = "NotMarked" => last'.op = "releaseLien" /\ ~marked
      ]_vars

\* C14 happens: a second markLien on a collateral marked without an
\* application was refused
C14_Witness ==
    /\ last.op = "markLien"
    /\ last.res = "AlreadyMarked"
    /\ collaterals[last.id].lienStatus = "marked"
    /\ ~IsSet(collaterals[last.id].linkedApplication)

\* C15: releaseLien on a marked collateral whose linkedLoan references a
\* loan with status active answers ActiveLoanBlock and changes nothing; on
\* every other marked collateral it answers ok, the collateral becomes
\* released with linkedApplication and linkedLoan cleared, and nothing else
\* changes.
C15_ReleaseLien ==
    [][ ( /\ last.op = "none"
          /\ last'.op = "releaseLien"
          /\ last'.id \in DOMAIN collaterals
          /\ collaterals[last'.id].lienStatus = "marked" )
        => LET c == collaterals[last'.id]
               blocked == /\ c.linkedLoan \in DOMAIN loans
                          /\ loans[c.linkedLoan].status = "active"
           IN  /\ UNCHANGED <<applications, loans>>
               /\ blocked => last'.res = "ActiveLoanBlock" /\ UNCHANGED collaterals
               /\ ~blocked =>
                     /\ last'.res = "ok"
                     /\ collaterals'[last'.id].lienStatus = "released"
                     /\ ~IsSet(collaterals'[last'.id].linkedApplication)
                     /\ ~IsSet(collaterals'[last'.id].linkedLoan)
                     /\ collaterals'[last'.id].units = c.units
                     /\ collaterals'[last'.id].navPerUnit = c.navPerUnit
                     /\ \A f \in DOMAIN collaterals \ {last'.id} :
                           collaterals'[f] = collaterals[f]
      ]_vars

\* C15 happens: the release of a collateral linked to an active loan was
\* refused
C15_Witness ==
    /\ last.op = "releaseLien"
    /\ last.res = "ActiveLoanBlock"
    /\ collaterals[last.id].lienStatus = "marked"
    /\ collaterals[last.id].linkedLoan \in DOMAIN loans
    /\ loans[collaterals[last.id].linkedLoan].status = "active"

C25_LoanAtDisbursal ==
    [][ ( /\ last.op = "none"
          /\ last'.op = "updateApplicationStatus"
          /\ last'.arg = "disbursed"
          /\ last'.res = "ok" ) =>
          LET application == applications[last'.id]
              created == DOMAIN loans' \ DOMAIN loans
          IN  /\ Cardinality(created) = 1
              /\ \A l \in created :
                    LET loan == loans'[l]
                    IN  /\ loan.application = last'.id
                        /\ loan.status = "active"
                        /\ loan.disbursedAmount =
                              IF application.approvedAmount # 0
                              THEN application.approvedAmount
                              ELSE application.requestedAmount
                        /\ loan.outstandingAmount = loan.disbursedAmount
                        /\ loan.totalPrincipalPaid = 0
                        /\ loan.totalInterestPaid = 0
                        /\ loan.interestRate = application.interestRate
                        /\ loan.tenure = application.tenure
                        /\ Len(loan.emiSchedule) = application.tenure
                        /\ \A i \in DOMAIN loan.emiSchedule :
                              /\ loan.emiSchedule[i].emiNumber = i
                              /\ loan.emiSchedule[i].status = "pending"
                        /\ loan.nextEmiDate = loan.emiSchedule[1].dueDate
      ]_vars

\* C25 happens: an application that asked for 1000 and was approved for 2000
\* was disbursed
C25_Witness ==
    /\ last.op = "updateApplicationStatus"
    /\ last.arg = "disbursed"
    /\ last.res = "ok"
    /\ \E l \in DOMAIN loans :
          /\ loans[l].application = last.id
          /\ loans[l].disbursedAmount = 2000
          /\ applications[last.id].requestedAmount = 1000

\* C29: the currentLTV of every loan is outstandingAmount /
\* totalCollateralValue * 100, and 0 when totalCollateralValue is 0
C29_CurrentLtv ==
    \A l \in DOMAIN loans :
        RatioEq(loans[l].currentLTV,
                Ratio(loans[l].outstandingAmount, loans[l].totalCollateralValue))

\* The scheduled principal and interest of the EMIs of a loan that are paid
RECURSIVE PaidPrincipal(_, _)
PaidPrincipal(loan, n) ==
    IF n = 0 THEN 0
    ELSE PaidPrincipal(loan, n - 1)
         + IF loan.emiSchedule[n].status = "paid" THEN loan.emiSchedule[n].principal ELSE 0

RECURSIVE PaidInterest(_, _)
PaidInterest(loan, n) ==
    IF n = 0 THEN 0
    ELSE PaidInterest(loan, n - 1)
         + IF loan.emiSchedule[n].status = "paid" THEN loan.emiSchedule[n].interest ELSE 0

\* C32: with the requests served one at a time, after every step the
\* totalPrincipalPaid of every loan is the sum of the scheduled principal of
\* its paid EMIs and its totalInterestPaid the sum of their scheduled interest,
\* and an EMI that was paid before the step is paid after it.
C32_PaidLedger ==
    [][ \A l \in DOMAIN loans' :
          LET loan == loans'[l]
          IN  /\ loan.totalPrincipalPaid = PaidPrincipal(loan, Len(loan.emiSchedule))
              /\ loan.totalInterestPaid = PaidInterest(loan, Len(loan.emiSchedule))
              /\ l \in DOMAIN loans =>
                    \A i \in DOMAIN loans[l].emiSchedule :
                        loans[l].emiSchedule[i].status = "paid" =>
                            /\ i \in DOMAIN loan.emiSchedule
                            /\ loan.emiSchedule[i].status = "paid"
      ]_vars

\* C32 happens: the second EMI of a loan was paid, then a sweep has marked the
\* first one overdue, and the totals are those of the second EMI
C32_Witness ==
    /\ last.op = "markOverdueEmis" /\ last.arg = 1
    /\ \E l \in DOMAIN loans :
          /\ loans[l].emiSchedule[1].status = "overdue"
          /\ loans[l].emiSchedule[2].status = "paid"
          /\ loans[l].totalPrincipalPaid = loans[l].emiSchedule[2].principal
          /\ loans[l].totalInterestPaid = loans[l].emiSchedule[2].interest
          /\ loans[l].totalPrincipalPaid > 0 /\ loans[l].totalInterestPaid > 0

\* C34: in every state, every collateral of a loan whose status is active or
\* overdue has lienStatus marked and a linkedLoan that references the loan.
C34_LienWhileOpen ==
    \A l \in DOMAIN loans :
        loans[l].status \in {"active", "overdue"} =>
            \A f \in loans[l].collaterals :
                /\ f \in DOMAIN collaterals
                /\ collaterals[f].lienStatus = "marked"
                /\ collaterals[f].linkedLoan = l

\* C35: in every state, no collateral is marked with a linkedLoan that
\* references a loan whose status is closed.
C35_ClosedHoldsNoLien ==
    \A l \in DOMAIN loans :
        loans[l].status = "closed" =>
            \A f \in DOMAIN collaterals :
                ~(collaterals[f].lienStatus = "marked" /\ collaterals[f].linkedLoan = l)

\* C39: a step changes the lienStatus of a collateral only from none to
\* marked, from marked to released or from released to marked, so that a
\* collateral that was marked once is never none again; and a createApplication
\* that answers ok names only collaterals whose lienStatus was none, none that
\* was pledged before.
C39_LienNeverReset ==
    [][ /\ \A f \in DOMAIN collaterals :
              /\ f \in DOMAIN collaterals'
              /\ \/ collaterals'[f].lienStatus = collaterals[f].lienStatus
                 \/ <<collaterals[f].lienStatus, collaterals'[f].lienStatus>>
                        \in { <<"none", "marked">>, <<"marked", "released">>,
                              <<"released", "marked">> }
        /\ ( /\ last.op = "none"
             /\ last'.op = "createApplication"
             /\ last'.res = "ok" )
           => \A f \in applications'[last'.id].collaterals :
                  /\ collaterals[f].lienStatus = "none"
                  /\ collaterals'[f].lienStatus = "marked"
      ]_vars

\* C39 happens: an application that names a collateral released before was
\* refused, and the collateral is still released
C39_Witness ==
    /\ last.op = "createApplication"
    /\ last.res = "InvalidOrPledgedCollateral"
    /\ \A f \in DOMAIN collaterals : collaterals[f].lienStatus = "released"
    /\ collaterals # << >>
    /\ applications = << >>

(***************************************************************************)
(* Properties of the loans under repayment (SpecRepay).                    *)
(***************************************************************************)

\* Some instalment of the loan has the given status
HasEmi(loan, status) ==
    \E i \in DOMAIN loan.emiSchedule : loan.emiSchedule[i].status = status

SweptDatabases ==
    {Database} \cup { Run(Database, Request("updateLoanStatus", l, st)).db :
                        l \in DOMAIN loans, st \in LoanStatuses }

\* The days a sweep may run on: the first two days of the months of the run
\* and of the month after
SweepDates == { Date(m, day) : m \in 1 .. MaxToday + 1, day \in 1 .. 2 }

\* C27: markOverdueEmis changes the loans that are active or overdue and have
\* a pending EMI due before today: those EMIs become overdue and the loan
\* becomes overdue.  Every other loan (closed, defaulted, restructured, or
\* with nothing past due), every other EMI (paid, overdue already, due today
\* or later), every other field of a loan, the applications and the
\* collaterals stay what they were.
C27_SweepFrame ==
    \A d \in SweptDatabases, now \in SweepDates :
        LET s == Run(d, [Request("markOverdueEmis", 0, 0) EXCEPT !.now = now])
            Due(loan) == { i \in DOMAIN loan.emiSchedule :
                             /\ loan.emiSchedule[i].status = "pending"
                             /\ loan.emiSchedule[i].dueDate < now }
            Swept(loan) == loan.status \in {"active", "overdue"} /\ Due(loan) # {}
        IN  /\ s.r.res = "ok"
            /\ s.db.collaterals = d.collaterals
            /\ s.db.applications = d.applications
            /\ DOMAIN s.db.loans = DOMAIN d.loans
            /\ \A l \in DOMAIN d.loans :
                  s.db.loans[l] =
                      IF Swept(d.loans[l])
                      THEN [d.loans[l] EXCEPT
                              !.status = "overdue",
                              !.emiSchedule =
                                  [ i \in DOMAIN @ |->
                                      IF i \in Due(d.loans[l])
                                      THEN [@[i] EXCEPT !.status = "overdue"]
                                      ELSE @[i] ]]
                      ELSE d.loans[l]

\* C27 happens: a sweep has marked the first EMI of a loan and has left the
\* second one, which is due today, pending
C27_Witness ==
    /\ last.op = "markOverdueEmis"
    /\ last.res = "ok"
    /\ last.arg = 1
    /\ \E l \in DOMAIN loans :
          /\ loans[l].status = "overdue"
          /\ loans[l].emiSchedule[1].status = "overdue"
          /\ loans[l].emiSchedule[2].status = "pending"
          /\ loans[l].emiSchedule[2].dueDate = today

\* C28: a recordPayment or a markOverdueEmis leaves every closed loan as it
\* is, schedule included, and a recordPayment for a closed loan answers
\* LoanClosed whatever the EMI number: a closed loan does not become active or
\* overdue by either.
C28_ClosedStaysClosed ==
    [][ ( /\ last.op = "none"
          /\ last'.op \in {"recordPayment", "markOverdueEmis"} ) =>
          /\ \A l \in DOMAIN loans :
                loans[l].status = "closed" => loans'[l] = loans[l]
          /\ ( /\ last'.op = "recordPayment"
               /\ last'.id \in DOMAIN loans
               /\ loans[last'.id].status = "closed" ) => last'.res = "LoanClosed"
      ]_vars

\* C28 happens: a payment was refused for a loan that is closed with an EMI
\* still pending and past due
C28_Witness ==
    /\ last.op = "recordPayment"
    /\ last.res = "LoanClosed"
    /\ loans[last.id].status = "closed"
    /\ \E i \in DOMAIN loans[last.id].emiSchedule :
          /\ loans[last.id].emiSchedule[i].status = "pending"
          /\ loans[last.id].emiSchedule[i].dueDate < today

\* C36: in every state, the disbursedAmount of every loan lies within the
\* minAmount and maxAmount of its product, and for a loan with collateral
\* disbursedAmount / totalCollateralValue x 100 is at most the product's maxLTV.
C36_LoanWithinProduct ==
    \A l \in DOMAIN loans :
        LET loan == loans[l]
            loanProduct == LoanProduct(loan.loanProduct)
        IN  /\ loan.disbursedAmount >= loanProduct.minAmount
            /\ loan.disbursedAmount <= loanProduct.maxAmount
            /\ loan.totalCollateralValue > 0 =>
                  loan.disbursedAmount * 100 <= loanProduct.maxLTV * loan.totalCollateralValue

(***************************************************************************)
(* Properties of the loan of three instalments (SpecPay).                  *)
(***************************************************************************)

\* C30: after a recordPayment that answers ok, nextEmiDate is the due date of
\* the pending entry with the lowest number, whether or not an earlier entry is
\* overdue, and null when no entry is pending.
C30_NextEmiDate ==
    [][ ( /\ last.op = "none"
          /\ last'.op = "recordPayment"
          /\ last'.res = "ok" ) =>
          LET loan == loans'[last'.id]
              pending == { i \in DOMAIN loan.emiSchedule :
                             loan.emiSchedule[i].status = "pending" }
              lowest == CHOOSE i \in pending :
                            \A j \in pending :
                                loan.emiSchedule[i].emiNumber <= loan.emiSchedule[j].emiNumber
          IN  loan.nextEmiDate = IF pending = {} THEN Null
                                 ELSE loan.emiSchedule[lowest].dueDate
      ]_vars

\* C30 happens: EMI 2 was paid while EMI 1 is overdue and EMI 3 pending, and
\* nextEmiDate is the due date of EMI 3
C30_Witness ==
    /\ last.op = "recordPayment"
    /\ last.res = "ok"
    /\ last.arg = 2
    /\ loans[last.id].emiSchedule[1].status = "overdue"
    /\ loans[last.id].emiSchedule[2].status = "paid"
    /\ loans[last.id].emiSchedule[3].status = "pending"
    /\ loans[last.id].nextEmiDate = loans[last.id].emiSchedule[3].dueDate

(***************************************************************************)
(* Properties of the loans without interest (SpecZero).                    *)
(***************************************************************************)

\* C31: the disbursal of an approved application whose interest rate is 0
\* answers ok and creates a loan whose emiAmount is principal / tenure, to the
\* cent, and whose schedule entries all carry the interest 0.
C31_ZeroRateDisbursal ==
    [][ ( /\ last.op = "none"
          /\ last'.op = "updateApplicationStatus"
          /\ last'.arg = "disbursed"
          /\ last'.id \in DOMAIN applications
          /\ applications[last'.id].status = "approved"
          /\ applications[last'.id].interestRate = 0 )
        => /\ last'.res = "ok"
           /\ \E l \in DOMAIN loans' \ DOMAIN loans :
                LET loan == loans'[l]
                IN  /\ loan.application = last'.id
                    /\ loan.emiAmount = MathRound(loan.disbursedAmount, loan.tenure)
                    /\ Len(loan.emiSchedule) = loan.tenure
                    /\ \A i \in DOMAIN loan.emiSchedule : loan.emiSchedule[i].interest = 0
      ]_vars

\* C37: in every state, the nextEmiDate of every loan that is not closed is
\* the due date of its first pending EMI, and empty when no EMI is pending.
C37_NextEmiDateCurrent ==
    \A l \in DOMAIN loans :
        LET loan == loans[l]
            pending == { i \in DOMAIN loan.emiSchedule : loan.emiSchedule[i].status = "pending" }
            first == CHOOSE i \in pending : \A j \in pending : i <= j
        IN  loan.status # "closed" =>
                loan.nextEmiDate = IF pending = {} THEN Null ELSE loan.emiSchedule[first].dueDate

\* The loan l after recordPayment for the EMI first and then for the EMI
\* second, each with the whole handler, starting from the database d
PaidInOrder(d, l, first, second) ==
    LET Payment(n) == With(Request("recordPayment", l, n),
                           [amount |-> CHOOSE amount \in PaidAmounts : TRUE])
    IN  Run(Run(d, Payment(first)).db, Payment(second)).db.loans[l]

\* C38: in every state, for every loan and every two of its EMIs, recording
\* the two payments in either order leaves the same status, outstandingAmount,
\* totalPrincipalPaid and totalInterestPaid.
C38_OrderIndependent ==
    \A l \in DOMAIN loans :
        \A a, b \in DOMAIN loans[l].emiSchedule :
            a < b =>
                LET ab == PaidInOrder(Database, l, a, b)
                    ba == PaidInOrder(Database, l, b, a)
                IN  /\ ab.status = ba.status
                    /\ ab.outstandingAmount = ba.outstandingAmount
                    /\ ab.totalPrincipalPaid = ba.totalPrincipalPaid
                    /\ ab.totalInterestPaid = ba.totalInterestPaid

(***************************************************************************)
(* Properties of the value of the collaterals (SpecValue).                 *)
(***************************************************************************)

\* C40: after every step the currentValue of every collateral is units x
\* navPerUnit; and an updateNav answers ok, leaves every listed collateral
\* that exists with a NAV of the list, reports their number, leaves the
\* collaterals that are not listed as they were, registers no folio that was
\* unknown, and changes no lienStatus and no link.
C40_CurrentValue ==
    [][ /\ \A f \in DOMAIN collaterals' :
              collaterals'[f].currentValue = collaterals'[f].units * collaterals'[f].navPerUnit
        /\ (last.op = "none" /\ last'.op = "updateNav") =>
              LET navUpdates == last'.arg
                  Listed(f) == { i \in DOMAIN navUpdates : navUpdates[i].folioNumber = f }
              IN  /\ last'.res = "ok"
                  /\ DOMAIN collaterals' = DOMAIN collaterals
                  /\ last'.id = Cardinality({ i \in DOMAIN navUpdates :
                                                navUpdates[i].folioNumber \in DOMAIN collaterals })
                  /\ \A f \in DOMAIN collaterals :
                        /\ Listed(f) = {} => collaterals'[f] = collaterals[f]
                        /\ Listed(f) # {} =>
                              collaterals'[f].navPerUnit
                                  \in { navUpdates[i].newNav : i \in Listed(f) }
                        /\ collaterals'[f].units = collaterals[f].units
                        /\ collaterals'[f].lienStatus = collaterals[f].lienStatus
                        /\ collaterals'[f].linkedApplication = collaterals[f].linkedApplication
                        /\ collaterals'[f].linkedLoan = collaterals[f].linkedLoan
      ]_vars

\* C40 happens: a collateral that an application holds, with units changed by
\* updateCollateral, has taken the new NAV of a list that also names a folio
\* that is not registered
C40_Witness ==
    /\ last.op = "updateNav" /\ last.res = "ok" /\ last.id = 1
    /\ Len(last.arg) = 2
    /\ last.arg[1].folioNumber \notin DOMAIN collaterals
    /\ last.arg[2].folioNumber \in DOMAIN collaterals
    /\ LET collateral == collaterals[last.arg[2].folioNumber]
       IN  /\ collateral.units = 3
           /\ collateral.navPerUnit = 1500
           /\ collateral.currentValue = 4500
           /\ collateral.lienStatus = "marked"
           /\ collateral.linkedApplication \in DOMAIN applications

(***************************************************************************)
(* Properties of the intake of applications (SpecIntake).                  *)
(***************************************************************************)

\* The folios of r that are registered and carry no lien
FreeFolios(d, r) ==
    { f \in r.collateralFolios :
        f \in DOMAIN d.collaterals /\ d.collaterals[f].lienStatus = "none" }

\* The conditions of acceptance, every bound inclusive: the product exists and
\* is active, minAmount <= requestedAmount <= maxAmount,
\* minTenure <= tenure <= maxTenure, every folio is registered and free, and
\* requestedAmount * 100 <= maxLTV * totalCollateralValue (no collateral: ltv 0)
Acceptable(d, r) ==
    /\ r.loanProductId \in ProductIds
    /\ LET loanProduct == LoanProduct(r.loanProductId)
           value == TotalValue(d.collaterals, FreeFolios(d, r))
       IN  /\ loanProduct.status = "active"
           /\ loanProduct.minAmount <= r.requestedAmount
           /\ r.requestedAmount <= loanProduct.maxAmount
           /\ loanProduct.minTenure <= r.tenure
           /\ r.tenure <= loanProduct.maxTenure
           /\ FreeFolios(d, r) = r.collateralFolios
           /\ ~RatioExceedsExactly(Ratio(r.requestedAmount, value), loanProduct.maxLTV)

\* C16: in every state, a createApplication request is accepted exactly when
\* the product exists and is active, the amount and the tenure lie within the
\* product's inclusive bounds, every requested folio resolves and the
\* loan-to-value is at most maxLTV (equal is accepted); a rejected request
\* leaves the applications and the collaterals as they were.
C16_InclusiveBounds ==
    \A r \in IntakeApplicationRequests :
        LET s == Run(Database, r)
        IN  /\ (s.r.res = "ok") <=> Acceptable(Database, r)
            /\ s.r.res # "ok" => s.db = Database

\* The checks that come before the collaterals are resolved
ProductAccepts(r) ==
    /\ r.loanProductId \in ProductIds
    /\ LET loanProduct == LoanProduct(r.loanProductId)
       IN  /\ loanProduct.status = "active"
           /\ loanProduct.minAmount <= r.requestedAmount
           /\ r.requestedAmount <= loanProduct.maxAmount
           /\ loanProduct.minTenure <= r.tenure
           /\ r.tenure <= loanProduct.maxTenure

C18_RejectReleases ==
    [][ ( /\ last.op = "none"
          /\ last'.op = "updateApplicationStatus"
          /\ last'.arg = "rejected"
          /\ last'.res = "ok" ) =>
        /\ applications[last'.id].status \in {"submitted", "under_review", "approved"}
        /\ applications'[last'.id].status = "rejected"
        /\ DOMAIN collaterals' = DOMAIN collaterals
        /\ \A f \in DOMAIN collaterals :
             IF collaterals[f].linkedApplication = last'.id
             THEN collaterals'[f] = [collaterals[f] EXCEPT
                                        !.lienStatus = "released",
                                        !.linkedApplication = Null]
             ELSE collaterals'[f] = collaterals[f]
        /\ loans' = loans
        /\ \A a \in DOMAIN applications : a # last'.id => applications'[a] = applications[a]
      ]_vars

\* C18 happens: an application was rejected and its collateral is released
\* with no link, while the other application still holds the lien on the
\* other collateral
C18_Witness ==
    /\ last.op = "updateApplicationStatus"
    /\ last.arg = "rejected"
    /\ last.res = "ok"
    /\ \E f, g \in DOMAIN collaterals :
        /\ f \in applications[last.id].collaterals
        /\ collaterals[f].lienStatus = "released"
        /\ collaterals[f].linkedApplication = Null
        /\ collaterals[g].lienStatus = "marked"
        /\ IsSet(collaterals[g].linkedApplication)
        /\ collaterals[g].linkedApplication # last.id
        /\ collaterals[g].linkedApplication \in DOMAIN applications

\* C19: when updateApplicationStatus answers ok for the status disbursed, a
\* loan was created and every collateral of the application has linkedLoan
\* equal to that loan, no linkedApplication, lienStatus marked, and the units,
\* navPerUnit and currentValue it had.
C19_LinkMigrates ==
    [][ ( /\ last.op = "none"
          /\ last'.op = "updateApplicationStatus"
          /\ last'.arg = "disbursed"
          /\ last'.res = "ok" ) =>
        \E loan \in DOMAIN loans' \ DOMAIN loans :
            \A f \in applications[last'.id].collaterals :
                /\ collaterals'[f].linkedLoan = loan
                /\ ~IsSet(collaterals'[f].linkedApplication)
                /\ collaterals'[f].lienStatus = "marked"
                /\ collaterals'[f].units = collaterals[f].units
                /\ collaterals'[f].navPerUnit = collaterals[f].navPerUnit
                /\ collaterals'[f].currentValue = collaterals[f].currentValue
      ]_vars

(***************************************************************************)
(* Properties of the schedule generator (SpecSchedule).                    *)
(***************************************************************************)

\* C20: the schedule of every generated loan (tenure and rate above 0) has
\* exactly tenure entries, entry i is numbered i and is pending, and each due
\* date is later than the one before and falls in the calendar month that
\* follows the month of the one before.
C20_MonthlySchedule ==
    \A l \in DOMAIN loans :
        LET loan == loans[l]
            schedule == loan.emiSchedule
        IN  /\ Len(schedule) = loan.tenure
            /\ \A i \in 1 .. Len(schedule) :
                 /\ schedule[i].emiNumber = i
                 /\ schedule[i].status = "pending"
            /\ \A i \in 1 .. Len(schedule) - 1 :
                 /\ schedule[i].dueDate < schedule[i + 1].dueDate
                 /\ GetMonth(schedule[i + 1].dueDate) = GetMonth(schedule[i].dueDate) + 1

\* The scheduled principal of all instalments together
RECURSIVE SumPrincipal(_, _)
SumPrincipal(schedule, n) ==
    IF n = 0 THEN 0 ELSE schedule[n].principal + SumPrincipal(schedule, n - 1)

\* One currency unit (100 hundredths) for every started hundred of instalments
Tolerance(tenure) == 100 * ((tenure + 99) \div 100)

\* C21: the scheduled principal of every generated schedule, summed over all
\* instalments, differs from the disbursed amount by at most one currency unit
\* for every started hundred of instalments.
C21_PrincipalSum ==
    \A l \in DOMAIN loans :
        LET loan == loans[l]
            total == SumPrincipal(loan.emiSchedule, Len(loan.emiSchedule))
        IN  /\ total - loan.disbursedAmount <= Tolerance(loan.tenure)
            /\ loan.disbursedAmount - total <= Tolerance(loan.tenure)

(***************************************************************************)
(* Properties of the application of everyday size (SpecExample).           *)
(***************************************************************************)

\* 500000.00 over 24 months from product 4 against folio 1
ExampleRequest ==
    With(Request("createApplication", 0, 0),
         [loanProductId |-> 4, requestedAmount |-> 50000000, tenure |-> 24,
          collateralFolios |-> {1}])

\* Folio 1 is worth 1200000.00 and free, no application was made yet
ExampleReady ==
    /\ applications = << >>
    /\ 1 \in DOMAIN collaterals
    /\ collaterals[1].currentValue = 120000000
    /\ LienFree(collaterals[1])

\* ltv.toFixed(2), in hundredths of a percent
ToFixed2(x) == MathRound(x.num * 10000, x.den)

\* A loan of 500000.00 at 12 percent over 24 months
IsExample(loan) ==
    /\ loan.disbursedAmount = 50000000
    /\ loan.interestRate = 12
    /\ loan.tenure = 24

\* C22: an application for 500000.00 over 24 months from the product
\* {minAmount 50000, maxAmount 5000000, minTenure 6, maxTenure 36, maxLTV 50,
\* interestRate 12} against one collateral worth 1200000.00 is accepted with an
\* ltv of 41.67, and the loan of its disbursal has an emiAmount of 23536.74:
\* the amortization at 1 percent a month over 24 months.
C22_WorkedExample ==
    /\ ExampleReady =>
          LET s == Run(Database, ExampleRequest)
          IN  /\ s.r.res = "ok"
              /\ s.db.applications[1].status = "submitted"
              /\ ToFixed2(s.db.applications[1].ltv) = 4167
    /\ \A l \in DOMAIN loans : IsExample(loans[l]) => loans[l].emiAmount = 2353674

\* C22 as stated: the emiAmount of that loan is 23537.11, within 0.01
C22_StatedEmi ==
    \A l \in DOMAIN loans :
        IsExample(loans[l]) => loans[l].emiAmount \in 2353710 .. 2353712

\* C22 happens: the application against the collateral worth 1200000.00 was
\* disbursed
C22_Witness ==
    \E l \in DOMAIN loans :
        /\ IsExample(loans[l])
        /\ loans[l].collaterals = {1}
        /\ loans[l].totalCollateralValue = 120000000
        /\ applications[loans[l].application].status = "disbursed"
        /\ ToFixed2(applications[loans[l].application].ltv) = 4167

(***************************************************************************)
(* Properties of the editing and deletion of applications (SpecEdit).      *)
(***************************************************************************)

\* C23: updateApplication answers ok only for an application that is draft or
\* submitted, deleteApplication only for one that is draft, and then the
\* application is gone; for an application in any other status the request is
\* refused (CannotUpdate, OnlyDraft) and the applications, the collaterals and
\* the loans are what they were.
C23_EditGuards ==
    [][ ( /\ last.op = "none"
          /\ last'.op \in {"updateApplication", "deleteApplication"}
          /\ last'.id \in DOMAIN applications ) =>
          LET application == applications[last'.id]
              allowed == IF last'.op = "updateApplication"
                         THEN {"draft", "submitted"}
                         ELSE {"draft"}
              refusal == IF last'.op = "updateApplication" THEN "CannotUpdate" ELSE "OnlyDraft"
          IN  /\ last'.res = "ok" => application.status \in allowed
              /\ (last'.res = "ok" /\ last'.op = "deleteApplication") =>
                    last'.id \notin DOMAIN applications'
              /\ application.status \notin allowed =>
                    /\ last'.res = refusal
                    /\ UNCHANGED <<applications, collaterals, loans>>
      ]_vars

\* C23 happens: the deletion of a submitted application, which could still be
\* updated, was refused and the application is there
C23_Witness ==
    /\ last.op = "deleteApplication"
    /\ last.res = "OnlyDraft"
    /\ last.id \in DOMAIN applications
    /\ applications[last.id].status = "submitted"

(***************************************************************************)
(* Properties of the interleaved requests (SpecConc).                      *)
(***************************************************************************)

\* C3: a collateral is listed by at most one open application (submitted,
\* under_review or approved) or loan that is not closed.
C3_ExclusivePledge ==
    \A f \in DOMAIN collaterals :
        Cardinality({ a \in DOMAIN applications :
                        /\ applications[a].status \in {"submitted", "under_review", "approved"}
                        /\ f \in applications[a].collaterals })
        + Cardinality({ l \in DOMAIN loans :
                        /\ loans[l].status # "closed"
                        /\ f \in loans[l].collaterals }) <= 1

\* C4: the totals of a loan reflect every payment recorded on it: the EMIs
\* that carry a payment are paid, totalPrincipalPaid and totalInterestPaid are
\* the sums of their principal and interest, and outstandingAmount is the
\* disbursed amount less totalPrincipalPaid.
C4_NoLostPayment ==
    \A l \in DOMAIN loans :
        LET loan == loans[l]
            recorded == { i \in DOMAIN loan.emiSchedule : loan.emiSchedule[i].paidAmount # 0 }
            RECURSIVE Sum(_, _)
            Sum(S, field) == IF S = {} THEN 0
                             ELSE LET i == CHOOSE x \in S : TRUE
                                  IN  loan.emiSchedule[i][field] + Sum(S \ {i}, field)
        IN  /\ loan.totalPrincipalPaid = Sum(recorded, "principal")
            /\ loan.totalInterestPaid = Sum(recorded, "interest")
            /\ loan.outstandingAmount = loan.disbursedAmount - loan.totalPrincipalPaid

\* C5: an EMI on which a payment was recorded has status paid, whatever the
\* sweep does meanwhile.
C5_PaidStaysPaid ==
    \A l \in DOMAIN loans :
        \A i \in DOMAIN loans[l].emiSchedule :
            loans[l].emiSchedule[i].paidAmount # 0 => loans[l].emiSchedule[i].status = "paid"

(***************************************************************************)
(* Properties of the interleaved requests on one loan (SpecLedger).        *)
(***************************************************************************)

\* C33: in every state, whatever the interleaving of payments, sweeps and
\* status overrides, outstandingAmount + totalPrincipalPaid of every loan is
\* its disbursedAmount.
C33_PrincipalConserved ==
    \A l \in DOMAIN loans :
        loans[l].outstandingAmount + loans[l].totalPrincipalPaid = loans[l].disbursedAmount

\* C33 happens: two payments have interleaved, both EMIs are paid and the
\* totals count one of them only, on a loan whose status was set by hand
\* meanwhile
C33_Witness ==
    \E l \in DOMAIN loans :
        /\ \A i \in DOMAIN loans[l].emiSchedule : loans[l].emiSchedule[i].status = "paid"
        /\ loans[l].totalPrincipalPaid = loans[l].emiSchedule[1].principal
        /\ loans[l].outstandingAmount = loans[l].disbursedAmount - loans[l].emiSchedule[1].principal
        /\ loans[l].outstandingAmount > 0
        /\ loans[l].status = "closed" /\ loans[l].closureReason = ""

(***************************************************************************)
(* Properties of the requests that may fault (SpecFault).                  *)
(***************************************************************************)

\* C6: once no request is in flight, the application of every loan is past
\* approved, and every collateral of a loan on which nothing was paid yet is
\* linked to that loan.
C6_AtomicDisbursal ==
    Busy = {} =>
        \A l \in DOMAIN loans :
            /\ applications[loans[l].application].status # "approved"
            /\ (\A i \in DOMAIN loans[l].emiSchedule :
                    loans[l].emiSchedule[i].status = "pending")
                => \A f \in loans[l].collaterals : collaterals[f].linkedLoan = l

====
